---- MODULE Spec2Model ----
(***************************************************************************)
(* A model of the serde_someip codec: the schema model (types.rs), the     *)
(* length field selection (length_fields.rs, options.rs), the TLV wire     *)
(* types (wire_type.rs), the serializer (ser.rs) and the deserializer      *)
(* (de.rs).                                                                *)
(*                                                                         *)
(* Conventions.                                                            *)
(*  - A LengthFieldSize is its byte count 1, 2 or 4; Option<LengthFieldSize>*)
(*    None is 0.  A field id Option<u16> None is -1.                       *)
(*  - A Result is a record with a field err: <<>> for Ok, and otherwise a  *)
(*    tuple <<kind, ...>> whose kind is the name of the Error variant, or  *)
(*    "panic" for a panic!, unwrap() or assert! that aborts the call.      *)
(*  - Buffer positions are the 0-based offsets of the source; byte i of a  *)
(*    buffer b is b[i + 1].                                                *)
(***************************************************************************)
EXTENDS Integers, Sequences, FiniteSets, TLC

VARIABLES
    opts,     \* the SomeIpOptions of the call
    ty,       \* the SOMEIP_TYPE handed to to_vec
    value,    \* the value handed to to_vec
    pc,       \* "start", "encoded", "decoded", "selected"
    ser,      \* the serializer after to_vec
    mode,     \* which input the decoder was given
    dety,     \* the SOMEIP_TYPE handed to from_slice
    input,    \* the bytes handed to from_slice
    de,       \* the deserializer after from_slice
    dval,     \* the value from_slice returned
    sel       \* one call of select_length_field_size with its result

vars == <<opts, ty, value, pc, ser, mode, dety, input, de, dval, sel>>

Pow2(n) == 2 ^ n

Min(a, b) == IF a <= b THEN a ELSE b

Max(a, b) == IF a >= b THEN a ELSE b

NoErr == <<>>

Panic(msg) == <<"panic", msg>>

\* A local binding: Bind([x \in {e} |-> body]) is body with x standing for
\* the value of e, which is computed once.
Bind(f) == CHOOSE y \in {g[CHOOSE x \in DOMAIN g : TRUE] : g \in {f}} : TRUE

(***************************************************************************)
(* length_fields.rs                                                        *)
(***************************************************************************)
LengthFieldSizes == {1, 2, 4}

U8Max == 255

U16Max == 65535

\* LengthFieldSize::minimum_length_for; 0 stands for its panic.  The limit
\* u32::MAX is above the integers of the model checker: len <= u32::MAX is
\* written as the equivalent len \div 2^16 <= u16::MAX.
minimum_length_for(len) ==
    IF len <= U8Max THEN 1
    ELSE IF len <= U16Max THEN 2
    ELSE IF len \div (U16Max + 1) <= U16Max THEN 4
    ELSE 0

(***************************************************************************)
(* options.rs                                                              *)
(***************************************************************************)
\* The constants of one impl of SomeIpOptions.
Options(bo, enc, bom, term, dflt, over, legacy, selection, strict, action) ==
    [BYTE_ORDER |-> bo,
     STRING_ENCODING |-> enc,
     STRING_WITH_BOM |-> bom,
     STRING_WITH_TERMINATOR |-> term,
     DEFAULT_LENGTH_FIELD_SIZE |-> dflt,
     OVERWRITE_LENGTH_FIELD_SIZE |-> over,
     SERIALIZER_USE_LEGACY_WIRE_TYPE |-> legacy,
     SERIALIZER_LENGTH_FIELD_SIZE_SELECTION |-> selection,
     DESERIALIZER_STRICT_BOOL |-> strict,
     DESERIALIZER_ACTION_ON_TOO_MUCH_DATA |-> action]

\* The defaults of the trait.
ExampleOptions ==
    Options("BigEndian", "Utf8", FALSE, FALSE, 4, 0, FALSE, "Smallest", FALSE, "Discard")

overwrite_length_field_size(o, from_type) ==
    IF o.OVERWRITE_LENGTH_FIELD_SIZE # 0 THEN o.OVERWRITE_LENGTH_FIELD_SIZE
    ELSE IF from_type # 0 THEN from_type
    ELSE o.DEFAULT_LENGTH_FIELD_SIZE

\* A mutant: the AsConfigured branch keeps the configured size even when the
\* length does not fit it.
select_length_field_size_keeps_configured(o, configured, len, is_in_tlv_struct) ==
    LET minimum_needed == minimum_length_for(len) IN
    IF minimum_needed = 0 THEN [err |-> Panic("Cannot handle message"), v |-> 0]
    ELSE IF is_in_tlv_struct THEN
        IF o.SERIALIZER_LENGTH_FIELD_SIZE_SELECTION = "AsConfigured"
        THEN [err |-> NoErr, v |-> configured]
        ELSE [err |-> NoErr, v |-> minimum_needed]
    ELSE IF configured < minimum_needed
        THEN [err |-> <<"TooLong", len, configured>>, v |-> 0]
        ELSE [err |-> NoErr, v |-> configured]

select_length_field_size(o, configured, len, is_in_tlv_struct) ==
    LET minimum_needed == minimum_length_for(len) IN
    IF minimum_needed = 0 THEN [err |-> Panic("Cannot handle message"), v |-> 0]
    ELSE IF is_in_tlv_struct THEN
        IF o.SERIALIZER_LENGTH_FIELD_SIZE_SELECTION = "AsConfigured"
        THEN IF minimum_needed <= configured
             THEN [err |-> NoErr, v |-> configured]
             ELSE [err |-> NoErr, v |-> minimum_needed]
        ELSE [err |-> NoErr, v |-> minimum_needed]
    ELSE IF configured < minimum_needed
        THEN [err |-> <<"TooLong", len, configured>>, v |-> 0]
        ELSE [err |-> NoErr, v |-> configured]

(***************************************************************************)
(* wire_type.rs: a WireType is its code 0..7.                              *)
(***************************************************************************)
\* WireType::get_length_field_size
get_length_field_size(wire_type) ==
    CASE wire_type = 5 -> 1
      [] wire_type = 6 -> 2
      [] wire_type = 7 -> 4
      [] OTHER -> 0

\* WireType::get_fixed_size; 0 is None.
get_fixed_size(wire_type) ==
    CASE wire_type = 0 -> 1
      [] wire_type = 1 -> 2
      [] wire_type = 2 -> 4
      [] wire_type = 3 -> 8
      [] OTHER -> 0

\* From<LengthFieldSize> for WireType
wire_type_from_length_field_size(size) ==
    CASE size = 1 -> 5
      [] size = 2 -> 6
      [] OTHER -> 7

\* From<WireType> for u16
wire_type_to_u16(wire_type) == wire_type * 4096

\* From<u16> for WireType: (v >> 12) & 0x7
wire_type_from_u16(v) == (v \div 4096) % 8

\* WireType::disect_tag
disect_tag(tag) == <<wire_type_from_u16(tag), tag % 4096>>

\* WireType::check: Ok, or the InvalidWireType error.
check(self, other) ==
    LET matches == IF self \in 0..3 THEN other = self ELSE other \in 4..7 IN
    IF matches THEN NoErr ELSE <<"InvalidWireType", self, other>>

(***************************************************************************)
(* types.rs: the schema.  Three annotations say what the Rust data type    *)
(* of the value is, which the schema of the source leaves to the serde     *)
(* visitor: optional (a field of type Option<T>), as_bytes (a byte buffer  *)
(* that serializes through serialize_bytes and deserializes through        *)
(* deserialize_byte_buf, rather than a Vec<u8>), and the order of the      *)
(* fields of a struct value, which is the order of its value's pairs.      *)
(***************************************************************************)
Primitive(p) == [kind |-> "Primitive", prim |-> p]

\* SomeIpEnum: the values are pairs of variant name and value, each value of
\* the raw type, as verify demands.
Enum(name, values, raw_type) ==
    [kind |-> "Enum", name |-> name, values |-> values, raw_type |-> raw_type]

\* SomeIpEnum::name_to_value: the value of the first pair of that name.
name_to_value(e, name) ==
    LET found == {i \in 1..Len(e.values) : e.values[i][1] = name} IN
    IF found = {} THEN <<>>
    ELSE <<e.values[CHOOSE i \in found : \A j \in found : i <= j][2]>>

\* A mutant: every value has the name of the first pair.
value_to_name_of_first(e, v) == <<e.values[1][1]>>

\* SomeIpEnum::value_to_name: the name of the first pair of that value.
value_to_name(e, v) ==
    LET found == {i \in 1..Len(e.values) : e.values[i][2] = v} IN
    IF found = {} THEN <<>>
    ELSE <<e.values[CHOOSE i \in found : \A j \in found : i <= j][1]>>

String(min_size, max_size, length_field_size) ==
    [kind |-> "String", max_size |-> max_size, min_size |-> min_size,
     length_field_size |-> length_field_size]

Sequence(min_elements, max_elements, element_type, length_field_size, as_bytes) ==
    [kind |-> "Sequence", max_elements |-> max_elements, min_elements |-> min_elements,
     element_type |-> element_type, length_field_size |-> length_field_size,
     as_bytes |-> as_bytes]

Field(name, id, field_type, optional) ==
    [name |-> name, id |-> id, field_type |-> field_type, optional |-> optional]

Struct(fields, uses_tlv_serialization, is_message_wrapper, length_field_size) ==
    [kind |-> "Struct", fields |-> fields,
     uses_tlv_serialization |-> uses_tlv_serialization,
     is_message_wrapper |-> is_message_wrapper,
     length_field_size |-> length_field_size]

\* SomeIpPrimitive::get_len
get_len(prim) ==
    CASE prim \in {"bool", "u8", "i8"} -> 1
      [] prim \in {"u16", "i16"} -> 2
      [] prim \in {"u32", "i32", "f32"} -> 4
      [] OTHER -> 8

\* SomeIpPrimitive::get_wire_type
prim_get_wire_type(prim) ==
    CASE prim \in {"bool", "u8", "i8"} -> 0
      [] prim \in {"u16", "i16"} -> 1
      [] prim \in {"u32", "i32", "f32"} -> 2
      [] OTHER -> 3

\* SomeIpType::get_wire_type
get_wire_type(t) ==
    IF t.kind = "Primitive" THEN prim_get_wire_type(t.prim)
    ELSE IF t.kind = "Enum" THEN prim_get_wire_type(t.raw_type)
    ELSE 4

\* SomeIpStruct::field_by_name: the index of the first field with the name, 0 for None.
field_by_name(s, name) ==
    LET hits == {i \in 1..Len(s.fields) : s.fields[i].name = name} IN
    IF hits = {} THEN 0 ELSE CHOOSE i \in hits : \A j \in hits : i <= j

\* SomeIpStruct::field_by_id: the index of the first field with the id, 0 for None.
field_by_id(s, id) ==
    LET hits == {i \in 1..Len(s.fields) : s.fields[i].id = id} IN
    IF hits = {} THEN 0 ELSE CHOOSE i \in hits : \A j \in hits : i <= j

\* A mutant: no type is of constant size.
is_const_size_never(t) == FALSE

RECURSIVE is_const_size(_)
\* SomeIpSize::is_const_size
is_const_size(t) ==
    CASE t.kind \in {"Primitive", "Enum"} -> TRUE
      [] t.kind = "String" -> t.min_size = t.max_size
      [] t.kind = "Sequence" ->
            t.min_elements = t.max_elements /\ is_const_size(t.element_type)
      [] OTHER ->
            /\ ~t.uses_tlv_serialization
            /\ \A i \in 1..Len(t.fields) : is_const_size(t.fields[i].field_type)

\* A mutant: a message wrapper gets the length field of any other struct.
wanted_length_field_of_wrapper(o, t, is_in_tlv_struct) ==
    CASE t.kind \in {"Primitive", "Enum"} -> [err |-> NoErr, v |-> 0]
      [] t.kind \in {"String", "Sequence"} ->
            IF ~is_const_size(t) \/ is_in_tlv_struct
            THEN LET size == overwrite_length_field_size(o, t.length_field_size) IN
                 IF size = 0
                 THEN [err |-> Panic("Required a length field size but none was specified"),
                       v |-> 0]
                 ELSE [err |-> NoErr, v |-> size]
            ELSE [err |-> NoErr, v |-> 0]
      [] OTHER ->
            LET needs_length_field == is_in_tlv_struct \/ t.uses_tlv_serialization
                size == IF needs_length_field \/ t.length_field_size # 0
                        THEN overwrite_length_field_size(o, t.length_field_size)
                        ELSE 0
            IN  IF needs_length_field /\ size = 0
                THEN [err |-> Panic("Required a length field size for struct"),
                      v |-> 0]
                ELSE [err |-> NoErr, v |-> size]

\* SomeIpSize::wanted_length_field: the Option<LengthFieldSize> (0 for None), or
\* the panic for a length field that is needed and has no size.
wanted_length_field(o, t, is_in_tlv_struct) ==
    CASE t.kind \in {"Primitive", "Enum"} -> [err |-> NoErr, v |-> 0]
      [] t.kind \in {"String", "Sequence"} ->
            IF ~is_const_size(t) \/ is_in_tlv_struct
            THEN LET size == overwrite_length_field_size(o, t.length_field_size) IN
                 IF size = 0
                 THEN [err |-> Panic("Required a length field size but none was specified"),
                       v |-> 0]
                 ELSE [err |-> NoErr, v |-> size]
            ELSE [err |-> NoErr, v |-> 0]
      [] OTHER ->
            IF t.is_message_wrapper THEN [err |-> NoErr, v |-> 0]
            ELSE
                LET needs_length_field == is_in_tlv_struct \/ t.uses_tlv_serialization
                    size == IF needs_length_field \/ t.length_field_size # 0
                            THEN overwrite_length_field_size(o, t.length_field_size)
                            ELSE 0
                IN  IF needs_length_field /\ size = 0
                    THEN [err |-> Panic("Required a length field size for struct"),
                          v |-> 0]
                    ELSE [err |-> NoErr, v |-> size]

\* The tail of every max_len: the length plus the length field selected for it.
add_length_field(o, size, len, is_in_tlv_struct) ==
    IF size.err # NoErr THEN [err |-> size.err, v |-> 0]
    ELSE IF len.err # NoErr THEN len
    ELSE IF size.v # 0
    THEN LET selected == select_length_field_size(o, size.v, len.v, is_in_tlv_struct) IN
         IF selected.err # NoErr THEN [err |-> selected.err, v |-> 0]
         ELSE [err |-> NoErr, v |-> len.v + selected.v]
    ELSE len

RECURSIVE max_len(_, _, _)
RECURSIVE fields_max_len(_, _, _)
\* The loop of SomeIpStruct::max_len over the fields from index i on.
fields_max_len(o, s, i) ==
    IF i > Len(s.fields) THEN [err |-> NoErr, v |-> 0]
    ELSE LET head == max_len(o, s.fields[i].field_type, s.uses_tlv_serialization) IN
         IF head.err # NoErr THEN head
         ELSE LET rest == fields_max_len(o, s, i + 1) IN
              IF rest.err # NoErr THEN rest
              ELSE [err |-> NoErr, v |-> head.v + rest.v]

\* SomeIpSize::max_len
max_len(o, t, is_in_tlv_struct) ==
    CASE t.kind = "Primitive" -> [err |-> NoErr, v |-> get_len(t.prim)]
      [] t.kind = "Enum" -> [err |-> NoErr, v |-> get_len(t.raw_type)]
      [] t.kind = "String" ->
            add_length_field(o, wanted_length_field(o, t, is_in_tlv_struct),
                             [err |-> NoErr, v |-> t.max_size], is_in_tlv_struct)
      [] t.kind = "Sequence" ->
            LET size == wanted_length_field(o, t, is_in_tlv_struct)
                elem == max_len(o, t.element_type, FALSE)
                len == IF elem.err # NoErr THEN elem
                       ELSE [err |-> NoErr, v |-> t.max_elements * elem.v]
            IN  add_length_field(o, size, len, is_in_tlv_struct)
      [] OTHER ->
            add_length_field(o, wanted_length_field(o, t, is_in_tlv_struct),
                             fields_max_len(o, t, 1), is_in_tlv_struct)

(***************************************************************************)
(* Strings: a str is its sequence of Unicode scalar values.                *)
(***************************************************************************)
\* The UTF-8 bytes of one scalar value (str::as_bytes).
utf8_of_char(c) ==
    IF c < 128 THEN <<c>>
    ELSE IF c < 2048 THEN <<192 + (c \div 64), 128 + (c % 64)>>
    ELSE IF c < 65536
    THEN <<224 + (c \div 4096), 128 + ((c \div 64) % 64), 128 + (c % 64)>>
    ELSE <<240 + (c \div 262144), 128 + ((c \div 4096) % 64),
           128 + ((c \div 64) % 64), 128 + (c % 64)>>

\* The UTF-16 code units of one scalar value (str::encode_utf16).
utf16_of_char(c) ==
    IF c < 65536 THEN <<c>>
    ELSE <<55296 + ((c - 65536) \div 1024), 56320 + ((c - 65536) % 1024)>>

RECURSIVE as_bytes(_)
\* str::as_bytes, by halves.
as_bytes(chars) ==
    IF Len(chars) = 0 THEN <<>>
    ELSE IF Len(chars) = 1 THEN utf8_of_char(chars[1])
    ELSE LET h == Len(chars) \div 2 IN
         as_bytes(SubSeq(chars, 1, h)) \o as_bytes(SubSeq(chars, h + 1, Len(chars)))

RECURSIVE encode_utf16(_)
\* str::encode_utf16, by halves.
encode_utf16(chars) ==
    IF Len(chars) = 0 THEN <<>>
    ELSE IF Len(chars) = 1 THEN utf16_of_char(chars[1])
    ELSE LET h == Len(chars) \div 2 IN
         encode_utf16(SubSeq(chars, 1, h)) \o encode_utf16(SubSeq(chars, h + 1, Len(chars)))

\* str::is_ascii
is_ascii(chars) == \A i \in 1..Len(chars) : chars[i] < 128

BOM == 65279

(***************************************************************************)
(* ser.rs: the writer                                                      *)
(***************************************************************************)
\* Byte k (0 the lowest) of the two's complement of data.  The integers of
\* the model are below 2^31 in size, so the bytes from the fifth on are the
\* sign.
byte_of(data, k) ==
    IF k < 4 THEN (data \div Pow2(8 * k)) % 256
    ELSE IF data < 0 THEN 255 ELSE 0

\* SomeIpWriter::write_ux over the cast `v as uN`: the size bytes of data in
\* the byte order.
\* A mutant: the bytes are written highest first under each byte order.
write_ux_big_endian(data, size, byte_order) ==
    [i \in 1..size |-> byte_of(data, size - i)]

write_ux(data, size, byte_order) ==
    IF byte_order = "BigEndian"
    THEN [i \in 1..size |-> byte_of(data, size - i)]
    ELSE [i \in 1..size |-> byte_of(data, i - 1)]

\* len > uN::MAX for the N of a length field of size bytes.
exceeds(len, size) ==
    CASE size = 1 -> len > U8Max
      [] size = 2 -> len > U16Max
      [] OTHER -> len \div (U16Max + 1) > U16Max

\* SomeIpSerializer::new.  closes and patches are no fields of the code:
\* closes records, for each length section that was closed, the buffer
\* before and after, and patches, for each time serialize_field came to
\* last_length_field.take().unwrap(), what it found.
SerNew ==
    [writer |-> <<>>,
     is_in_tlv_struct |-> FALSE,
     last_length_field |-> <<>>,
     length_delimited_sections |-> <<>>,
     closes |-> <<>>,
     patches |-> <<>>,
     err |-> NoErr]

SerFail(s, e) == [s EXCEPT !.err = e]

\* impl SomeIpWriter for Vec<u8>: write
write(s, data) == [s EXCEPT !.writer = @ \o data]

\* A mutant: the bytes are written at the end.
write_at_previous_pos_at_end(s, pos, data) == [s EXCEPT !.writer = @ \o data]

\* SomeIpSerializer::write_at_previous_pos: the buffer is cut at pos, the value
\* is appended and the length is set back to what it was.
write_at_previous_pos(s, pos, data) ==
    LET end == Len(s.writer) IN
    IF ~(pos < end) THEN SerFail(s, Panic("assertion failed: pos < end"))
    ELSE [s EXCEPT !.writer =
            [i \in 1..end |->
                IF i > pos /\ i <= pos + Len(data) THEN data[i - pos] ELSE s.writer[i]]]

\* SomeIpSerializer::begin_length_delimited_section; maximum_needed is the
\* result of minimum_length_for, 0 for its panic.
ser_begin_length_delimited_section(s, configured, maximum_needed) ==
    IF maximum_needed = 0 THEN SerFail(s, Panic("Cannot handle message"))
    ELSE
        LET pos == Len(s.writer)
            reserved == Max(configured, maximum_needed)
        IN  [s EXCEPT
                !.length_delimited_sections =
                    Append(@, [pos |-> pos, reserved |-> reserved,
                               was_in_tlv |-> s.is_in_tlv_struct]),
                !.writer = @ \o [i \in 1..reserved |-> 0]]

\* The opening of the section of a type that wants a length field: the calls
\* of start() and of serialize_str / serialize_bytes.
ser_open(o, s, t, configured) ==
    IF configured = 0 THEN s
    ELSE Bind([m \in {max_len(o, t, s.is_in_tlv_struct)} |->
            IF m.err # NoErr THEN SerFail(s, m.err)
            ELSE ser_begin_length_delimited_section(s, configured,
                                                    minimum_length_for(m.v))])

\* SomeIpSerializer::end_length_delimited_section
ser_end_length_delimited_section(o, s, configured) ==
    IF Len(s.length_delimited_sections) = 0
    THEN SerFail(s, Panic("called Option::unwrap() on a None value"))
    ELSE
        LET top == s.length_delimited_sections[Len(s.length_delimited_sections)]
            end == Len(s.writer)
            len == end - top.pos - top.reserved
            popped == [s EXCEPT
                        !.length_delimited_sections = SubSeq(@, 1, Len(@) - 1)]
        IN  Bind([actual \in {select_length_field_size(o, configured, len,
                                                       top.was_in_tlv)} |->
                IF actual.err # NoErr THEN SerFail(popped, actual.err)
                ELSE
                    LET marked == [popped EXCEPT
                                    !.last_length_field = <<actual.v, actual.v = configured>>]
                    IN  IF actual.v # top.reserved /\ ~(top.reserved > actual.v)
                        THEN SerFail(marked, Panic("assertion failed: reserved > actual"))
                        ELSE
                            LET moved == [marked EXCEPT !.writer =
                                            SubSeq(s.writer, 1, top.pos + actual.v)
                                            \o SubSeq(s.writer, top.pos + top.reserved + 1,
                                                      end)]
                            IN  IF exceeds(len, actual.v)
                                THEN SerFail(moved, <<"TooLong", len, actual.v>>)
                                ELSE
                                    Bind([closed \in {write_at_previous_pos(moved, top.pos,
                                            write_ux(len, actual.v, o.BYTE_ORDER))} |->
                                        [closed EXCEPT !.closes = Append(@,
                                            [pos |-> top.pos, reserved |-> top.reserved,
                                             actual |-> actual.v, before |-> s.writer,
                                             after |-> closed.writer,
                                             ok |-> closed.err = NoErr])]])])

\* SomeIpSerializer::internal_write_str
\* A mutant: the code units of UTF-16 are written with the high byte first
\* under every byte order.
internal_write_str_big_endian(o, s, chars) ==
    IF o.STRING_ENCODING # "Utf16" THEN write(s, as_bytes(chars))
    ELSE LET units == encode_utf16(chars) IN
         write(s, [i \in 1..(2 * Len(units)) |->
                    write_ux(units[(i + 1) \div 2], 2, "BigEndian")[2 - (i % 2)]])

internal_write_str(o, s, chars) ==
    IF o.STRING_ENCODING # "Utf16" THEN write(s, as_bytes(chars))
    ELSE LET units == encode_utf16(chars) IN
         write(s, [i \in 1..(2 * Len(units)) |->
                    write_ux(units[(i + 1) \div 2], 2, o.BYTE_ORDER)[2 - (i % 2)]])

(***************************************************************************)
(* ser.rs: the serializer.  A value is a record whose k names the Rust     *)
(* data type: a primitive ("bool", "u8", ... with v), "str" (chars),       *)
(* "bytes" (bytes), "seq" (elems), "struct" (fields, the <<name, value>>   *)
(* pairs in the order of the Rust declaration), "none" and "some" (v).     *)
(***************************************************************************)
PrimKinds == {"bool", "u8", "i8", "u16", "i16", "u32", "i32", "f32", "u64", "i64", "f64"}

\* serialize_bool .. serialize_f64
serialize_primitive(o, s, v) ==
    write(s, write_ux(v.v, get_len(v.k), o.BYTE_ORDER))

\* serialize_str
serialize_str(o, s, t, chars) ==
    IF t.kind # "String" THEN SerFail(s, Panic("Expeceted a string"))
    ELSE IF o.STRING_ENCODING = "Ascii" /\ ~is_ascii(chars)
    THEN SerFail(s, <<"CannotCodeString">>)
    ELSE
        Bind([length_field_size \in {wanted_length_field(o, t, s.is_in_tlv_struct)} |->
        IF length_field_size.err # NoErr THEN SerFail(s, length_field_size.err)
        ELSE
            Bind([opened \in {ser_open(o, s, t, length_field_size.v)} |->
            IF opened.err # NoErr THEN opened
            ELSE
                Bind([bom \in {IF o.STRING_WITH_BOM
                                THEN internal_write_str(o, opened, <<BOM>>)
                                ELSE opened} |->
                Bind([body \in {internal_write_str(o, bom, chars)} |->
                Bind([term \in {IF o.STRING_WITH_TERMINATOR
                                 THEN internal_write_str(o, body, <<0>>)
                                 ELSE body} |->
                LET begin == Len(opened.writer)
                    actual_len == Len(term.writer) - begin
                IN  IF actual_len < t.min_size
                    THEN SerFail(term, <<"NotEnoughData", t.min_size, actual_len>>)
                    ELSE IF actual_len > t.max_size
                    THEN SerFail(term, <<"TooMuchData", t.max_size, actual_len>>)
                    ELSE IF length_field_size.v # 0
                    THEN ser_end_length_delimited_section(o, term, length_field_size.v)
                    ELSE term])])])])])

\* A mutant: the number of elements is not compared with the limits.
check_element_count_unchecked(t, len) == NoErr

\* The element count check of SomeIpSeqSerializer::new, of its end and of
\* serialize_bytes.
check_element_count(t, len) ==
    IF len < t.min_elements THEN <<"NotEnoughData", t.min_elements, len>>
    ELSE IF len > t.max_elements THEN <<"TooMuchData", t.max_elements, len>>
    ELSE NoErr

\* serialize_bytes
serialize_bytes(o, s, t, v) ==
    IF t.kind # "Sequence" THEN SerFail(s, Panic("Expeceted a sequence of u8s"))
    ELSE IF t.element_type # Primitive("u8")
    THEN SerFail(s, Panic("Expeceted Primitive(u8)"))
    ELSE IF check_element_count(t, Len(v)) # NoErr
    THEN SerFail(s, check_element_count(t, Len(v)))
    ELSE
        Bind([length_field_size \in {wanted_length_field(o, t, s.is_in_tlv_struct)} |->
        IF length_field_size.err # NoErr THEN SerFail(s, length_field_size.err)
        ELSE
            Bind([opened \in {ser_open(o, s, t, length_field_size.v)} |->
            IF opened.err # NoErr THEN opened
            ELSE IF length_field_size.v # 0
            THEN ser_end_length_delimited_section(o, write(opened, v), length_field_size.v)
            ELSE write(opened, v)])])

\* serialize_none: the two bytes of the tag are taken back.
serialize_none(s) ==
    IF ~s.is_in_tlv_struct
    THEN SerFail(s, Panic("Options are only supported in tlv structs"))
    ELSE [s EXCEPT !.writer = SubSeq(@, 1, Len(@) - 2)]

\* What serialize_field finds behind the value of a field of wire type 4:
\* the position of the tag, the slot last_length_field, the length of the
\* buffer and the number of sections closed so far.
Patch(s, tag_pos) ==
    [tag_pos |-> tag_pos, slot |-> s.last_length_field, end |-> Len(s.writer),
     closes |-> Len(s.closes)]

\* A mutant: the tag always names the width that was written.
rewrite_tag_always(o, s, field, tag_pos) ==
    IF s.last_length_field = <<>>
    THEN SerFail(s, Panic("called Option::unwrap() on a None value"))
    ELSE write_at_previous_pos([s EXCEPT !.last_length_field = <<>>], tag_pos,
            write_ux(wire_type_to_u16(wire_type_from_length_field_size(s.last_length_field[1]))
                     + field.id, 2, o.BYTE_ORDER))

\* A mutant: the tag stays as it was written, with wire type 4.
rewrite_tag_never(o, s, field, tag_pos) ==
    IF s.last_length_field = <<>>
    THEN SerFail(s, Panic("called Option::unwrap() on a None value"))
    ELSE [s EXCEPT !.last_length_field = <<>>]

\* The tail of serialize_field for a field of wire type 4: the tag is written
\* again with the wire type of the width that was written.
rewrite_tag(o, s, field, tag_pos) ==
    IF s.last_length_field = <<>>
    THEN SerFail([s EXCEPT !.patches = Append(@, Patch(s, tag_pos))],
                 Panic("called Option::unwrap() on a None value"))
    ELSE
        LET actual == s.last_length_field[1]
            is_as_configured == s.last_length_field[2]
            taken == [s EXCEPT !.last_length_field = <<>>,
                               !.patches = Append(@, Patch(s, tag_pos))]
        IN  IF ~is_as_configured \/ ~o.SERIALIZER_USE_LEGACY_WIRE_TYPE
            THEN write_at_previous_pos(taken, tag_pos,
                    write_ux(wire_type_to_u16(wire_type_from_length_field_size(actual))
                             + field.id, 2, o.BYTE_ORDER))
            ELSE taken

RECURSIVE Serialize(_, _, _, _)
RECURSIVE serialize_elements(_, _, _, _, _)
RECURSIVE serialize_fields(_, _, _, _, _)

\* SerializeSeq::serialize_element for the elements from index i on.
serialize_elements(o, s, t, elems, i) ==
    IF s.err # NoErr \/ i > Len(elems) THEN s
    ELSE serialize_elements(o,
            Serialize(o, [s EXCEPT !.is_in_tlv_struct = FALSE], t.element_type, elems[i]),
            t, elems, i + 1)

\* serialize_seq and SerializeSeq::end around the elements.
serialize_seq(o, s, t, elems) ==
    IF t.kind # "Sequence" THEN SerFail(s, Panic("Expeceted a sequence"))
    ELSE IF check_element_count(t, Len(elems)) # NoErr
    THEN SerFail(s, check_element_count(t, Len(elems)))
    ELSE
        Bind([length_field_size \in {wanted_length_field(o, t, s.is_in_tlv_struct)} |->
        IF length_field_size.err # NoErr THEN SerFail(s, length_field_size.err)
        ELSE
            Bind([done \in {serialize_elements(o, ser_open(o, s, t, length_field_size.v),
                                               t, elems, 1)} |->
            IF done.err # NoErr THEN done
            ELSE IF length_field_size.v # 0
            THEN ser_end_length_delimited_section(o, done, length_field_size.v)
            ELSE done])])

\* SerializeStruct::serialize_field
serialize_field(o, s, t, key, val) ==
    LET idx == field_by_name(t, key) IN
    IF idx = 0 THEN SerFail(s, Panic("Cannot find field"))
    ELSE
        LET field == t.fields[idx] IN
        IF t.uses_tlv_serialization
        THEN
            IF field.id < 0 THEN SerFail(s, Panic("Field has no id"))
            ELSE
                LET wire_type == get_wire_type(field.field_type)
                    tag == wire_type_to_u16(wire_type) + field.id
                    tag_pos == Len(s.writer)
                    tagged == [write(s, write_ux(tag, 2, o.BYTE_ORDER))
                                EXCEPT !.is_in_tlv_struct = TRUE]
                IN  Bind([done \in {Serialize(o, tagged, field.field_type, val)} |->
                        IF done.err # NoErr THEN done
                        ELSE IF wire_type = 4 THEN rewrite_tag(o, done, field, tag_pos)
                        ELSE done])
        ELSE Serialize(o, [s EXCEPT !.is_in_tlv_struct = FALSE], field.field_type, val)

\* SerializeStruct::serialize_field for the pairs from index i on.
\* A mutant: the fields are written in the order of the field list of the
\* schema, each with the value that was supplied under its name.
serialize_fields_in_schema_order(o, s, t, pairs, i) ==
    IF s.err # NoErr \/ i > Len(t.fields) THEN s
    ELSE LET at == CHOOSE j \in 1..Len(pairs) : pairs[j][1] = t.fields[i].name IN
         serialize_fields(o, serialize_field(o, s, t, pairs[at][1], pairs[at][2]),
                          t, pairs, i + 1)

serialize_fields(o, s, t, pairs, i) ==
    IF s.err # NoErr \/ i > Len(pairs) THEN s
    ELSE serialize_fields(o, serialize_field(o, s, t, pairs[i][1], pairs[i][2]),
                          t, pairs, i + 1)

\* serialize_struct and SerializeStruct::end around the fields.
serialize_struct(o, s, t, pairs) ==
    IF t.kind # "Struct" THEN SerFail(s, Panic("Expeceted a struct"))
    ELSE IF Len(pairs) # Len(t.fields)
    THEN SerFail(s, Panic("Cannot serialize more fields than struct has"))
    ELSE
        Bind([length_field_size \in {wanted_length_field(o, t, s.is_in_tlv_struct)} |->
        IF length_field_size.err # NoErr THEN SerFail(s, length_field_size.err)
        ELSE
            Bind([done \in {serialize_fields(o, ser_open(o, s, t, length_field_size.v),
                                             t, pairs, 1)} |->
            IF done.err # NoErr THEN done
            ELSE
                Bind([closed \in {IF length_field_size.v # 0
                                   THEN ser_end_length_delimited_section(o, done,
                                            length_field_size.v)
                                   ELSE done} |->
                IF closed.err # NoErr THEN closed
                ELSE [closed EXCEPT !.is_in_tlv_struct = FALSE]])])])

\* serialize_unit_variant: the value of the variant, written as the primitive
\* it is.
serialize_unit_variant(o, s, t, variant) ==
    IF t.kind # "Enum" THEN SerFail(s, Panic("Expeceted an enum"))
    ELSE LET found == name_to_value(t, variant) IN
         IF found = <<>> THEN SerFail(s, Panic("Enum has no field"))
         ELSE serialize_primitive(o, s, [k |-> t.raw_type, v |-> found[1]])

\* serialize_some
serialize_some(o, s, t, v) ==
    IF ~s.is_in_tlv_struct
    THEN SerFail(s, Panic("Options are only supported in tlv structs"))
    ELSE Serialize(o, s, t, v)

\* The Serialize implementation of the value, t being next_type.
Serialize(o, s, t, v) ==
    IF s.err # NoErr THEN s
    ELSE CASE v.k \in PrimKinds -> serialize_primitive(o, s, v)
           [] v.k = "str" -> serialize_str(o, s, t, v.chars)
           [] v.k = "bytes" -> serialize_bytes(o, s, t, v.bytes)
           [] v.k = "seq" -> serialize_seq(o, s, t, v.elems)
           [] v.k = "struct" -> serialize_struct(o, s, t, v.fields)
           [] v.k = "none" -> serialize_none(s)
           [] v.k = "enum" -> serialize_unit_variant(o, s, t, v.variant)
           [] OTHER -> serialize_some(o, s, t, v.v)

\* to_vec: the serializer after the value was serialized; its writer is the
\* result when err is NoErr.
to_vec(o, t, v) == Serialize(o, SerNew, t, v)

(***************************************************************************)
(* de.rs: the reader over a slice and the length delimited sections.       *)
(* The deserializer is a record; log is a history of the calls of          *)
(* before_read, closed one of the counters of the sections that were      *)
(* ended and widths one of the tags read and the length fields begun with  *)
(* the state of next_length_field_size, which the code does not keep.  An  *)
(* operator that returns a value returns the pair [d, v] of the            *)
(* deserializer and the value.                                             *)
(***************************************************************************)
\* SomeIpDeserializer::new over the slice
DeNew(data, root_type) ==
    [input |-> data,
     pos |-> 0,
     next_type |-> root_type,
     next_length_field_size |-> 0,
     next_field_name |-> "",
     is_in_tlv_struct |-> FALSE,
     length_delimited_sections |-> <<>>,
     stream |-> FALSE,
     remaining_bytes |-> 0,
     err |-> NoErr,
     log |-> <<>>,
     closed |-> <<>>,
     widths |-> <<>>]

\* SomeIpDeserializer::new over ExtendedReader::new(reader, len): data are
\* the bytes the reader delivers before it reports the end of the stream.
DeNewReader(data, len, root_type) ==
    [DeNew(data, root_type) EXCEPT !.stream = TRUE, !.remaining_bytes = len]

DeFail(d, e) == [d EXCEPT !.err = e]

NoValue == [k |-> "error"]

Ret(d, v) == [d |-> d, v |-> v]

RetFail(d, e) == Ret(DeFail(d, e), NoValue)

\* impl SomeIpReader for &[u8] and for ExtendedReader: remaining
reader_remaining(d) == IF d.stream THEN d.remaining_bytes ELSE Len(d.input) - d.pos

\* impl SomeIpReader for SomeIpDeserializer: remaining
remaining(d) ==
    IF Len(d.length_delimited_sections) = 0 THEN reader_remaining(d)
    ELSE d.length_delimited_sections[Len(d.length_delimited_sections)]

\* A mutant: the length is compared with the bytes of the input, whatever
\* section is open.
before_read_ignores_sections(d, len, what) ==
    LET n == Len(d.length_delimited_sections)
        ok == ~(reader_remaining(d) < len)
        after == IF ok /\ n > 0
                 THEN [d.length_delimited_sections EXCEPT ![n] = @ - len]
                 ELSE d.length_delimited_sections
    IN  [d EXCEPT
            !.length_delimited_sections = after,
            !.err = IF ok THEN NoErr ELSE <<"TooShort">>,
            !.log = Append(@, [what |-> what, len |-> len, ok |-> ok,
                               remaining |-> remaining(d),
                               reader |-> reader_remaining(d),
                               sections |-> d.length_delimited_sections,
                               after |-> after])]

\* SomeIpDeserializer::before_read; what names the caller for the log.
before_read(d, len, what) ==
    LET n == Len(d.length_delimited_sections)
        ok == ~(remaining(d) < len)
        after == IF ok /\ n > 0
                 THEN [d.length_delimited_sections EXCEPT ![n] = @ - len]
                 ELSE d.length_delimited_sections
    IN  [d EXCEPT
            !.length_delimited_sections = after,
            !.err = IF ok THEN NoErr ELSE <<"TooShort">>,
            !.log = Append(@, [what |-> what, len |-> len, ok |-> ok,
                               remaining |-> remaining(d),
                               reader |-> reader_remaining(d),
                               sections |-> d.length_delimited_sections,
                               after |-> after])]

\* next_slice: the next len bytes of the slice, or TooShort.
next_slice(d, len) ==
    IF reader_remaining(d) < len THEN RetFail(d, <<"TooShort">>)
    ELSE Ret([d EXCEPT !.pos = @ + len], SubSeq(d.input, d.pos + 1, d.pos + len))

\* ExtendedReader::updat_remaining
updat_remaining(d, len) ==
    IF len > d.remaining_bytes THEN DeFail(d, <<"TooShort">>)
    ELSE [d EXCEPT !.remaining_bytes = @ - len]

\* The bytes the stream still delivers.
StreamLeft(d) == Len(d.input) - d.pos

\* impl SomeIpReader for ExtendedReader: read.  read_exact fails with an
\* io error of kind UnexpectedEof when the stream ends before len bytes.
ExtendedReader_read(d, len) ==
    IF ~(len < 8) THEN RetFail(d, Panic("assertion failed: len < 8"))
    ELSE LET counted == updat_remaining(d, len) IN
         IF counted.err # NoErr THEN Ret(counted, NoValue)
         ELSE IF StreamLeft(counted) < len
         THEN RetFail([counted EXCEPT !.pos = Len(d.input)], <<"IoError", "UnexpectedEof">>)
         ELSE Ret([counted EXCEPT !.pos = @ + len], SubSeq(d.input, d.pos + 1, d.pos + len))

\* impl SomeIpReader for ExtendedReader: read_vec.  take(len).read_to_end
\* returns the bytes that came before the end of the stream.
ExtendedReader_read_vec(d, len) ==
    LET counted == updat_remaining(d, len)
        got == Min(len, StreamLeft(d))
    IN  IF counted.err # NoErr THEN Ret(counted, NoValue)
        ELSE Ret([counted EXCEPT !.pos = @ + got], SubSeq(d.input, d.pos + 1, d.pos + got))

\* impl SomeIpReader for ExtendedReader: discard.  At the end of the stream
\* Read::read returns Ok(0) and the loop goes on with the same len.
ExtendedReader_discard(d, len) ==
    LET counted == updat_remaining(d, len) IN
    IF counted.err # NoErr THEN counted
    ELSE IF StreamLeft(d) < len
    THEN DeFail([counted EXCEPT !.pos = Len(d.input)], <<"NeverReturns">>)
    ELSE [counted EXCEPT !.pos = @ + len]

\* SomeIpDeserializer::read
de_read(d, len) ==
    Bind([checked \in {before_read(d, len, "read")} |->
        IF checked.err # NoErr THEN Ret(checked, NoValue)
        ELSE IF checked.stream THEN ExtendedReader_read(checked, len)
        ELSE next_slice(checked, len)])

\* SomeIpDeserializer::read_vec
de_read_vec(d, len) ==
    Bind([checked \in {before_read(d, len, "read_vec")} |->
        IF checked.err # NoErr THEN Ret(checked, NoValue)
        ELSE IF checked.stream THEN ExtendedReader_read_vec(checked, len)
        ELSE next_slice(checked, len)])

\* SomeIpDeserializer::discard
de_discard(d, len) ==
    Bind([checked \in {before_read(d, len, "discard")} |->
        IF checked.err # NoErr THEN checked
        ELSE IF checked.stream THEN ExtendedReader_discard(checked, len)
        ELSE next_slice(checked, len).d])

RECURSIVE from_be(_)
\* The fold res << 8 | b of read_ux over the bytes, highest first.  The
\* integers of the model end at 2^31 - 1: a value of 2^31 or more is held as
\* 2^31 - 1, which is above every byte count and element count of the model,
\* so each comparison with one has the outcome the code has.
from_be(bytes) ==
    IF Len(bytes) = 0 THEN 0
    ELSE LET res == from_be(SubSeq(bytes, 1, Len(bytes) - 1)) IN
         IF res >= 8388608 THEN 2147483647 ELSE res * 256 + bytes[Len(bytes)]

RECURSIVE from_le(_)
\* The fold res | b << (i * 8) of read_ux over the bytes, lowest first, with
\* the same end of the integers as from_be.
from_le(bytes) ==
    IF Len(bytes) = 0 THEN 0
    ELSE LET res == from_le(Tail(bytes)) IN
         IF res >= 8388608 THEN 2147483647 ELSE res * 256 + bytes[1]

\* The bytes, highest first.
to_be(bytes, byte_order) ==
    IF byte_order = "BigEndian" THEN bytes
    ELSE [i \in 1..Len(bytes) |-> bytes[Len(bytes) + 1 - i]]

\* SomeIpReader::read_ux: the unsigned value of the next size bytes.
read_ux(d, size, byte_order) ==
    Bind([r \in {de_read(d, size)} |->
        IF r.d.err # NoErr THEN r
        ELSE Ret(r.d, IF byte_order = "BigEndian" THEN from_be(r.v) ELSE from_le(r.v))])

\* read_ux and the cast `value as iN`: the complement is folded for a set
\* sign bit, the unsigned value being above the integers of the model.
read_ix(d, size, byte_order) ==
    Bind([r \in {de_read(d, size)} |->
        IF r.d.err # NoErr THEN r
        ELSE LET high == IF byte_order = "BigEndian" THEN r.v[1] ELSE r.v[size]
                 parsed(bytes) == IF byte_order = "BigEndian" THEN from_be(bytes)
                                  ELSE from_le(bytes)
             IN  IF high >= 128
                 THEN Ret(r.d, 0 - parsed([i \in 1..size |-> 255 - r.v[i]]) - 1)
                 ELSE Ret(r.d, parsed(r.v))])

\* A mutant: the section is pushed without before_read.
begin_known_length_delimited_section_unchecked(d, len) ==
    Ret([d EXCEPT !.length_delimited_sections = Append(@, len)], len)

\* SomeIpDeserializer::begin_known_length_delimited_section
begin_known_length_delimited_section(d, len) ==
    Bind([checked \in {before_read(d, len, "section")} |->
        IF checked.err # NoErr THEN Ret(checked, NoValue)
        ELSE Ret([checked EXCEPT !.length_delimited_sections = Append(@, len)], len)])

\* A mutant: the length field has the configured size, whatever the tag said.
begin_length_delimited_section_ignores_tag(o, d, length_field_size) ==
    Bind([len \in {read_ux([d EXCEPT !.next_length_field_size = 0], length_field_size,
                           o.BYTE_ORDER)} |->
        IF len.d.err # NoErr THEN len
        ELSE begin_known_length_delimited_section(len.d, len.v)])

\* What begin_length_delimited_section finds and chooses.
Begun(d, length_field_size, size) ==
    [what |-> "begin", slot |-> d.next_length_field_size, configured |-> length_field_size,
     size |-> size, depth |-> Len(d.length_delimited_sections)]

\* A mutant: next_length_field_size is read and left as it is.
begin_length_delimited_section_keeps_override(o, d, length_field_size) ==
    LET size == IF d.next_length_field_size # 0 THEN d.next_length_field_size
                ELSE length_field_size
        kept == [d EXCEPT !.widths = Append(@, Begun(d, length_field_size, size))]
    IN  Bind([len \in {read_ux(kept, size, o.BYTE_ORDER)} |->
            IF len.d.err # NoErr THEN len
            ELSE begin_known_length_delimited_section(len.d, len.v)])

\* SomeIpDeserializer::begin_length_delimited_section
begin_length_delimited_section(o, d, length_field_size) ==
    LET size == IF d.next_length_field_size # 0 THEN d.next_length_field_size
                ELSE length_field_size
        taken == [d EXCEPT !.next_length_field_size = 0,
                           !.widths = Append(@, Begun(d, length_field_size, size))]
    IN  Bind([len \in {read_ux(taken, size, o.BYTE_ORDER)} |->
            IF len.d.err # NoErr THEN len
            ELSE begin_known_length_delimited_section(len.d, len.v)])

end_length_delimited_section_unchecked(d) ==
    LET n == Len(d.length_delimited_sections) IN
    IF n = 0
    THEN DeFail(d, Panic("Ended more length delimited sections than where started"))
    ELSE [d EXCEPT !.length_delimited_sections = SubSeq(@, 1, n - 1),
                   !.closed = Append(@, d.length_delimited_sections[n])]

\* SomeIpDeserializer::end_length_delimited_section
end_length_delimited_section(d) ==
    LET n == Len(d.length_delimited_sections) IN
    IF n = 0
    THEN DeFail(d, Panic("Ended more length delimited sections than where started"))
    ELSE LET v == d.length_delimited_sections[n]
             popped == [d EXCEPT !.length_delimited_sections = SubSeq(@, 1, n - 1),
                                 !.closed = Append(@, v)]
         IN  IF v # 0 THEN DeFail(popped, <<"NotAllBytesConsumed", v>>) ELSE popped

\* The section a string, a byte buffer or a sequence opens: its length field
\* when it wants one, its maximal length otherwise.
de_open(o, d, t, known) ==
    Bind([size \in {wanted_length_field(o, t, d.is_in_tlv_struct)} |->
        IF size.err # NoErr THEN RetFail(d, size.err)
        ELSE IF size.v # 0 THEN begin_length_delimited_section(o, d, size.v)
        ELSE begin_known_length_delimited_section(d, known)])

(***************************************************************************)
(* de.rs: primitives, strings and byte buffers                             *)
(***************************************************************************)
\* A mutant: every byte that is not 0 is true under each option.
deserialize_primitive_lenient(o, d, prim) ==
    Bind([r \in {IF prim \in {"i8", "i16", "i32", "i64"}
                  THEN read_ix(d, get_len(prim), o.BYTE_ORDER)
                  ELSE read_ux(d, get_len(prim), o.BYTE_ORDER)} |->
        IF r.d.err # NoErr THEN r
        ELSE IF prim = "bool"
        THEN Ret(r.d, [k |-> "bool", v |-> IF r.v # 0 THEN 1 ELSE 0])
        ELSE Ret(r.d, [k |-> prim, v |-> r.v])])

\* deserialize_bool .. deserialize_f64 of the Rust type prim; a bool is 0 or 1
\* and a float is its bits.
deserialize_primitive(o, d, prim) ==
    Bind([r \in {IF prim \in {"i8", "i16", "i32", "i64"}
                  THEN read_ix(d, get_len(prim), o.BYTE_ORDER)
                  ELSE read_ux(d, get_len(prim), o.BYTE_ORDER)} |->
        IF r.d.err # NoErr THEN r
        ELSE IF prim = "bool"
        THEN IF o.DESERIALIZER_STRICT_BOOL /\ r.v > 1
             THEN RetFail(r.d, <<"InvalidBool", r.v>>)
             ELSE Ret(r.d, [k |-> "bool", v |-> IF r.v # 0 THEN 1 ELSE 0])
        ELSE Ret(r.d, [k |-> prim, v |-> r.v])])

\* The length of the UTF-8 sequence a byte leads, 0 for none.
utf8_width(b) ==
    IF b < 128 THEN 1
    ELSE IF b >= 194 /\ b <= 223 THEN 2
    ELSE IF b >= 224 /\ b <= 239 THEN 3
    ELSE IF b >= 240 /\ b <= 244 THEN 4
    ELSE 0

\* The scalar value of the UTF-8 sequence of n bytes at index i.
utf8_scalar(bytes, i, n) ==
    CASE n = 1 -> bytes[i]
      [] n = 2 -> (bytes[i] - 192) * 64 + (bytes[i + 1] - 128)
      [] n = 3 -> (bytes[i] - 224) * 4096 + (bytes[i + 1] - 128) * 64 + (bytes[i + 2] - 128)
      [] OTHER -> (bytes[i] - 240) * 262144 + (bytes[i + 1] - 128) * 4096
                  + (bytes[i + 2] - 128) * 64 + (bytes[i + 3] - 128)

RECURSIVE utf8_chars(_, _)
\* String::from_utf8 from index i on: ok and the chars.
utf8_chars(bytes, i) ==
    IF i > Len(bytes) THEN [ok |-> TRUE, chars |-> <<>>]
    ELSE
        LET n == utf8_width(bytes[i]) IN
        IF n = 0 \/ i + n - 1 > Len(bytes) THEN [ok |-> FALSE, chars |-> <<>>]
        ELSE IF \E j \in 1..(n - 1) : bytes[i + j] < 128 \/ bytes[i + j] > 191
        THEN [ok |-> FALSE, chars |-> <<>>]
        ELSE
            LET c == utf8_scalar(bytes, i, n) IN
            IF \/ n = 3 /\ (c < 2048 \/ (c >= 55296 /\ c <= 57343))
               \/ n = 4 /\ (c < 65536 \/ c > 1114111)
            THEN [ok |-> FALSE, chars |-> <<>>]
            ELSE LET rest == utf8_chars(bytes, i + n) IN
                 [ok |-> rest.ok, chars |-> <<c>> \o rest.chars]

\* String::from_utf8; bytes that are all ASCII are their own chars.
from_utf8(bytes) ==
    IF \A i \in 1..Len(bytes) : bytes[i] < 128 THEN [ok |-> TRUE, chars |-> bytes]
    ELSE utf8_chars(bytes, 1)

RECURSIVE decode_utf16(_, _)
\* std::char::decode_utf16 from index i on: ok and the chars.
decode_utf16(units, i) ==
    IF i > Len(units) THEN [ok |-> TRUE, chars |-> <<>>]
    ELSE IF units[i] < 55296 \/ units[i] > 57343
    THEN LET rest == decode_utf16(units, i + 1) IN
         [ok |-> rest.ok, chars |-> <<units[i]>> \o rest.chars]
    ELSE IF units[i] <= 56319 /\ i < Len(units)
            /\ units[i + 1] >= 56320 /\ units[i + 1] <= 57343
    THEN LET rest == decode_utf16(units, i + 2) IN
         [ok |-> rest.ok,
          chars |-> <<65536 + (units[i] - 55296) * 1024 + (units[i + 1] - 56320)>>
                    \o rest.chars]
    ELSE [ok |-> FALSE, chars |-> <<>>]

\* The tail of both string readers: the terminator is taken off.
strip_terminator(o, d, chars) ==
    IF o.STRING_WITH_TERMINATOR
    THEN IF Len(chars) > 0 /\ chars[Len(chars)] = 0
         THEN Ret(d, SubSeq(chars, 1, Len(chars) - 1))
         ELSE RetFail(d, <<"CannotCodeString">>)
    ELSE Ret(d, chars)

\* SomeIpDeserializer::read_utf8_string
read_utf8_string(o, d, len) ==
    LET bom == utf8_of_char(BOM) IN
    Bind([head \in {IF o.STRING_WITH_BOM
                     THEN IF len < Len(bom) THEN RetFail(d, <<"CannotCodeString">>)
                          ELSE Bind([r \in {de_read(d, Len(bom))} |->
                                  IF r.d.err # NoErr THEN r
                                  ELSE IF r.v # bom
                                  THEN RetFail(r.d, <<"CannotCodeString">>)
                                  ELSE Ret(r.d, len - Len(bom))])
                     ELSE Ret(d, len)} |->
        IF head.d.err # NoErr THEN head
        ELSE
            Bind([r \in {de_read_vec(head.d, head.v)} |->
            IF r.d.err # NoErr THEN r
            ELSE
                Bind([text \in {from_utf8(r.v)} |->
                IF ~text.ok THEN RetFail(r.d, <<"FromUtf8Error">>)
                ELSE
                    Bind([stripped \in {strip_terminator(o, r.d, text.chars)} |->
                    IF stripped.d.err # NoErr THEN stripped
                    ELSE IF o.STRING_ENCODING = "Ascii" /\ ~is_ascii(stripped.v)
                    THEN RetFail(r.d, <<"CannotCodeString">>)
                    ELSE stripped])])])])

RECURSIVE read_units(_, _, _)
\* The CharIter of read_utf16_string: up to count code units, read one by
\* one until a read fails.
read_units(d, count, byte_order) ==
    IF count = 0 THEN Ret(d, <<>>)
    ELSE Bind([r \in {read_ux(d, 2, byte_order)} |->
            IF r.d.err # NoErr THEN r
            ELSE Bind([rest \in {read_units(r.d, count - 1, byte_order)} |->
                    IF rest.d.err # NoErr THEN rest
                    ELSE Ret(rest.d, <<r.v>> \o rest.v)])])

\* A mutant: the code units are read in the configured byte order.
read_utf16_string_configured_order(o, d, len) ==
    IF len % 2 # 0 THEN RetFail(d, <<"CannotCodeString">>)
    ELSE
        LET count == IF o.STRING_WITH_BOM THEN len \div 2 - 1 ELSE len \div 2 IN
        Bind([head \in {IF o.STRING_WITH_BOM
                         THEN IF len \div 2 = 0 THEN RetFail(d, <<"CannotCodeString">>)
                              ELSE Bind([r \in {de_read(d, 2)} |->
                                      IF r.d.err # NoErr THEN r
                                      ELSE IF r.v = <<254, 255>>
                                      THEN Ret(r.d, "BigEndian")
                                      ELSE IF r.v = <<255, 254>>
                                      THEN Ret(r.d, "LittleEndian")
                                      ELSE RetFail(r.d, <<"CannotCodeString">>)])
                         ELSE Ret(d, o.BYTE_ORDER)} |->
            IF head.d.err # NoErr THEN head
            ELSE
                Bind([units \in {read_units(head.d, count, o.BYTE_ORDER)} |->
                IF units.d.err # NoErr THEN units
                ELSE Bind([text \in {decode_utf16(units.v, 1)} |->
                        IF ~text.ok THEN RetFail(units.d, <<"CannotCodeString">>)
                        ELSE strip_terminator(o, units.d, text.chars)])])])

\* SomeIpDeserializer::read_utf16_string.  The code stops reading at the
\* first code unit that does not decode; this reads the rest before it
\* returns the same error.
read_utf16_string(o, d, len) ==
    IF len % 2 # 0 THEN RetFail(d, <<"CannotCodeString">>)
    ELSE
        LET count == IF o.STRING_WITH_BOM THEN len \div 2 - 1 ELSE len \div 2 IN
        Bind([head \in {IF o.STRING_WITH_BOM
                         THEN IF len \div 2 = 0 THEN RetFail(d, <<"CannotCodeString">>)
                              ELSE Bind([r \in {de_read(d, 2)} |->
                                      IF r.d.err # NoErr THEN r
                                      ELSE IF r.v = <<254, 255>>
                                      THEN Ret(r.d, "BigEndian")
                                      ELSE IF r.v = <<255, 254>>
                                      THEN Ret(r.d, "LittleEndian")
                                      ELSE RetFail(r.d, <<"CannotCodeString">>)])
                         ELSE Ret(d, o.BYTE_ORDER)} |->
            IF head.d.err # NoErr THEN head
            ELSE
                Bind([units \in {read_units(head.d, count, head.v)} |->
                IF units.d.err # NoErr THEN units
                ELSE Bind([text \in {decode_utf16(units.v, 1)} |->
                        IF ~text.ok THEN RetFail(units.d, <<"CannotCodeString">>)
                        ELSE strip_terminator(o, units.d, text.chars)])])])

\* The choice of the string reader in deserialize_string.
read_string(o, d, len) ==
    IF o.STRING_ENCODING = "Utf16" THEN read_utf16_string(o, d, len)
    ELSE read_utf8_string(o, d, len)

\* The value of a string or byte buffer of len bytes with at most max: the
\* policy for too much data and the end of the section.  is_string chooses
\* the reader.
\* A mutant: under Discard all the bytes of the section are read, as under
\* Keep.
read_limited_keeps_all(o, d, len, max, is_string) ==
    IF len > max /\ o.DESERIALIZER_ACTION_ON_TOO_MUCH_DATA = "Fail"
    THEN RetFail(d, <<"TooMuchData", max, len>>)
    ELSE
        Bind([r \in {IF is_string THEN read_string(o, d, len)
                      ELSE de_read_vec(d, len)} |->
        IF r.d.err # NoErr THEN r
        ELSE Ret(end_length_delimited_section(r.d), r.v)])

read_limited(o, d, len, max, is_string) ==
    LET take == IF len > max /\ o.DESERIALIZER_ACTION_ON_TOO_MUCH_DATA = "Discard"
                THEN max ELSE len
    IN  IF len > max /\ o.DESERIALIZER_ACTION_ON_TOO_MUCH_DATA = "Fail"
        THEN RetFail(d, <<"TooMuchData", max, len>>)
        ELSE
            Bind([r \in {IF is_string THEN read_string(o, d, take)
                          ELSE de_read_vec(d, take)} |->
            IF r.d.err # NoErr THEN r
            ELSE Bind([rest \in {IF take < len THEN de_discard(r.d, len - take)
                                  ELSE r.d} |->
                    IF rest.err # NoErr THEN Ret(rest, NoValue)
                    ELSE Ret(end_length_delimited_section(rest), r.v)])])

\* deserialize_string
deserialize_string(o, d) ==
    LET t == d.next_type IN
    IF t.kind # "String" THEN RetFail(d, Panic("Expeceted a string"))
    ELSE
        Bind([opened \in {de_open(o, d, t, t.max_size)} |->
        IF opened.d.err # NoErr THEN opened
        ELSE IF opened.v < t.min_size
        THEN RetFail(opened.d, <<"NotEnoughData", t.min_size, opened.v>>)
        ELSE Bind([r \in {read_limited(o, opened.d, opened.v, t.max_size, TRUE)} |->
                IF r.d.err # NoErr THEN Ret(r.d, NoValue)
                ELSE Ret(r.d, [k |-> "str", chars |-> r.v])])])

\* deserialize_byte_buf
deserialize_byte_buf(o, d) ==
    LET t == d.next_type IN
    IF t.kind # "Sequence" THEN RetFail(d, Panic("Expeceted a sequence of u8s"))
    ELSE IF t.element_type # Primitive("u8")
    THEN RetFail(d, Panic("Expeceted Primitive(u8)"))
    ELSE
        Bind([opened \in {de_open(o, d, t, t.max_elements)} |->
        IF opened.d.err # NoErr THEN opened
        ELSE Bind([r \in {read_limited(o, opened.d, opened.v, t.max_elements, FALSE)} |->
                IF r.d.err # NoErr THEN Ret(r.d, NoValue)
                ELSE Ret(r.d, [k |-> "bytes", bytes |-> r.v])])])

(***************************************************************************)
(* de.rs: tags, sequences and structs.  The Deserialize implementation of  *)
(* the Rust data type drives the calls; rt is the schema read as that data *)
(* type: Vec<T> for a sequence (a byte buffer with as_bytes), a struct     *)
(* with the derived visitor, Option<T> for an optional field.              *)
(***************************************************************************)
\* A mutant: the value of a known field is read whatever wire type its tag has.
known_field_unchecked(d, field, wire_type) ==
    Ret([d EXCEPT
            !.next_length_field_size = get_length_field_size(wire_type),
            !.next_type = field.field_type,
            !.next_field_name = field.name], TRUE)

\* The branch of read_next_tag for the tag of a known field.
known_field(d, field, wire_type) ==
    LET checked == check(get_wire_type(field.field_type), wire_type) IN
    IF checked # NoErr THEN RetFail(d, checked)
    ELSE Ret([d EXCEPT
                !.next_length_field_size = get_length_field_size(wire_type),
                !.next_type = field.field_type,
                !.next_field_name = field.name], TRUE)

\* The branch of read_next_tag for an unknown id: its value is skipped.
skip_unknown(o, d, t, wire_type) ==
    IF get_fixed_size(wire_type) # 0
    THEN Ret(de_discard(d, get_fixed_size(wire_type)), FALSE)
    ELSE
        LET lfsize == overwrite_length_field_size(o, t.length_field_size)
            sized == [d EXCEPT !.next_length_field_size = get_length_field_size(wire_type)]
        IN  IF lfsize = 0
            THEN RetFail(sized, Panic("Require a length field size to deserialize unknon id"))
            ELSE
                Bind([len \in {begin_length_delimited_section(o, sized, lfsize)} |->
                IF len.d.err # NoErr THEN len
                ELSE Bind([skipped \in {de_discard(len.d, len.v)} |->
                        IF skipped.err # NoErr THEN Ret(skipped, NoValue)
                        ELSE Ret(end_length_delimited_section(skipped), FALSE)])])

\* SomeIpDeserializer::read_next_tag: TRUE for the tag of a known field,
\* FALSE after the value of an unknown id was skipped.
read_next_tag(o, d) ==
    LET t == d.next_type IN
    IF t.kind # "Struct" THEN RetFail(d, Panic("Can only read tags in TLV encoded structs"))
    ELSE
        Bind([tag \in {read_ux(d, 2, o.BYTE_ORDER)} |->
        IF tag.d.err # NoErr THEN tag
        ELSE
            LET wire_type == disect_tag(tag.v)[1]
                idx == field_by_id(t, disect_tag(tag.v)[2])
                seen == [tag.d EXCEPT !.widths = Append(@,
                            [what |-> "tag", slot |-> tag.d.next_length_field_size,
                             set |-> get_length_field_size(wire_type),
                             depth |-> Len(tag.d.length_delimited_sections)])]
            IN  IF idx # 0 THEN known_field(seen, t.fields[idx], wire_type)
                ELSE skip_unknown(o, seen, t, wire_type)])

\* SeqAccess::size_hint of SomeIpSeqAccess, which the visitor of Vec<T> asks
\* for first: the deserializer, failed by the division when the element
\* length is 0.
size_hint(o, d, t) ==
    IF is_const_size(t.element_type)
    THEN Bind([element_len \in {max_len(o, t.element_type, FALSE)} |->
            IF element_len.err # NoErr
            THEN IF element_len.err[1] = "panic" THEN DeFail(d, element_len.err) ELSE d
            ELSE IF element_len.v = 0 THEN DeFail(d, Panic("attempt to divide by zero"))
            ELSE d])
    ELSE d

\* The pairs found so far hold the name.
has_key(found, name) == \E i \in 1..Len(found) : found[i][1] = name

value_of(found, name) == found[CHOOSE i \in 1..Len(found) : found[i][1] = name][2]

RECURSIVE Deserialize(_, _, _)
RECURSIVE seq_elements(_, _, _, _, _)
RECURSIVE struct_elements(_, _, _, _, _, _)
RECURSIVE map_entries(_, _, _, _, _)

\* deserialize_option and the visit_some of Option<T>
deserialize_option(o, d, rt) ==
    IF d.is_in_tlv_struct
    THEN Bind([r \in {Deserialize(o, d, rt)} |->
            IF r.d.err # NoErr THEN r ELSE Ret(r.d, [k |-> "some", v |-> r.v])])
    ELSE RetFail(d, Panic("Options are only supported in tlv structs"))

\* The Deserialize of the data type of a struct field.
deserialize_field(o, d, rfield) ==
    IF rfield.optional THEN deserialize_option(o, d, rfield.field_type)
    ELSE Deserialize(o, d, rfield.field_type)

\* The loop of the visitor of Vec<T> over SomeIpSeqAccess::next_element_seed,
\* element_count elements in.
\* A mutant: under Discard the element beyond max_elements is returned and
\* the loop ends without draining the section.
seq_elements_keeps_extra(o, d, t, rt, element_count) ==
    IF remaining(d) > 0
    THEN
        Bind([element \in {Deserialize(o,
                [d EXCEPT !.next_type = t.element_type, !.is_in_tlv_struct = FALSE],
                rt.element_type)} |->
            IF element.d.err # NoErr THEN element
            ELSE IF element_count + 1 > t.max_elements
                    /\ o.DESERIALIZER_ACTION_ON_TOO_MUCH_DATA = "Fail"
            THEN RetFail(element.d, <<"TooMuchData", t.max_elements, 0>>)
            ELSE IF element_count + 1 > t.max_elements
                    /\ o.DESERIALIZER_ACTION_ON_TOO_MUCH_DATA = "Discard"
            THEN Ret(element.d, <<element.v>>)
            ELSE Bind([rest \in {seq_elements(o, element.d, t, rt, element_count + 1)} |->
                    IF rest.d.err # NoErr THEN rest
                    ELSE Ret(rest.d, <<element.v>> \o rest.v)])])
    ELSE IF element_count < t.min_elements
    THEN RetFail(d, <<"NotEnoughData", t.min_elements, element_count>>)
    ELSE Ret(d, <<>>)

seq_elements(o, d, t, rt, element_count) ==
    IF remaining(d) > 0
    THEN
        Bind([element \in {Deserialize(o,
                [d EXCEPT !.next_type = t.element_type, !.is_in_tlv_struct = FALSE],
                rt.element_type)} |->
            IF element.d.err # NoErr THEN element
            ELSE IF element_count + 1 > t.max_elements
                    /\ o.DESERIALIZER_ACTION_ON_TOO_MUCH_DATA = "Fail"
            THEN RetFail(element.d, <<"TooMuchData", t.max_elements, 0>>)
            ELSE IF element_count + 1 > t.max_elements
                    /\ o.DESERIALIZER_ACTION_ON_TOO_MUCH_DATA = "Discard"
            THEN Ret(de_discard(element.d, remaining(element.d)), <<>>)
            ELSE Bind([rest \in {seq_elements(o, element.d, t, rt, element_count + 1)} |->
                    IF rest.d.err # NoErr THEN rest
                    ELSE Ret(rest.d, <<element.v>> \o rest.v)])])
    ELSE IF element_count < t.min_elements
    THEN RetFail(d, <<"NotEnoughData", t.min_elements, element_count>>)
    ELSE Ret(d, <<>>)

\* deserialize_seq
deserialize_seq(o, d, rt) ==
    LET t == d.next_type IN
    IF t.kind # "Sequence" THEN RetFail(d, Panic("Expeceted a sequence"))
    ELSE
        Bind([size \in {wanted_length_field(o, t, d.is_in_tlv_struct)} |->
        Bind([opened \in {
                IF size.err # NoErr THEN RetFail(d, size.err)
                ELSE IF size.v # 0 THEN begin_length_delimited_section(o, d, size.v)
                ELSE Bind([element_len \in {max_len(o, t.element_type, FALSE)} |->
                        IF element_len.err # NoErr THEN RetFail(d, element_len.err)
                        ELSE begin_known_length_delimited_section(d,
                                t.max_elements * element_len.v)])} |->
        IF opened.d.err # NoErr THEN opened
        ELSE
            Bind([hinted \in {size_hint(o, opened.d, t)} |->
            IF hinted.err # NoErr THEN Ret(hinted, NoValue)
            ELSE
                Bind([result \in {seq_elements(o, hinted, t, rt, 0)} |->
                IF result.d.err # NoErr THEN result
                ELSE Bind([closed \in {end_length_delimited_section(result.d)} |->
                        IF closed.err # NoErr THEN Ret(closed, NoValue)
                        ELSE Ret(closed, [k |-> "seq", elems |-> result.v])])])])])])

\* The derived visit_seq over next_element_seed of SomeIpStructAccess: the
\* fields of the data type from index i on, in the order of its declaration.
struct_elements(o, d, t, rt, in_section, i) ==
    IF i > Len(rt.fields) THEN Ret(d, <<>>)
    ELSE IF in_section /\ remaining(d) = 0
    THEN RetFail(d, <<"Message", "invalid length">>)
    ELSE
        LET idx == field_by_name(t, rt.fields[i].name) IN
        IF idx = 0 THEN RetFail(d, Panic("Struct has no field"))
        ELSE
            Bind([element \in {deserialize_field(o,
                    [d EXCEPT !.next_type = t.fields[idx].field_type,
                              !.is_in_tlv_struct = FALSE],
                    rt.fields[i])} |->
            IF element.d.err # NoErr THEN element
            ELSE Bind([rest \in {struct_elements(o, element.d, t, rt, in_section,
                                                  i + 1)} |->
                    IF rest.d.err # NoErr THEN rest
                    ELSE Ret(rest.d, <<<<rt.fields[i].name, element.v>>>> \o rest.v)])])

\* The loop of the derived visit_map over next_key_seed and next_value_seed,
\* found being the pairs read so far.
map_entries(o, d, t, rt, found) ==
    IF remaining(d) = 0 THEN Ret(d, found)
    ELSE
        Bind([tag \in {read_next_tag(o, [d EXCEPT !.next_type = t])} |->
        IF tag.d.err # NoErr THEN tag
        ELSE IF ~tag.v THEN map_entries(o, tag.d, t, rt, found)
        ELSE
            LET key == tag.d.next_field_name
                named == [tag.d EXCEPT !.next_field_name = ""]
                hits == {i \in 1..Len(rt.fields) : rt.fields[i].name = key}
            IN  IF hits = {}
                THEN RetFail(named, Panic("Someip cannot deserialize unknown data"))
                ELSE IF has_key(found, key)
                THEN RetFail(named, <<"Message", "duplicate field">>)
                ELSE
                    Bind([val \in {deserialize_field(o,
                                [named EXCEPT !.is_in_tlv_struct = TRUE],
                                rt.fields[CHOOSE i \in hits : TRUE])} |->
                        IF val.d.err # NoErr THEN val
                        ELSE map_entries(o, val.d, t, rt,
                                         Append(found, <<key, val.v>>))])])

\* A mutant: the fields are returned in the order in which their pairs were
\* found.
struct_of_in_wire_order(d, rt, found) ==
    IF \E i \in 1..Len(rt.fields) :
            ~has_key(found, rt.fields[i].name) /\ ~rt.fields[i].optional
    THEN RetFail(d, <<"Message", "missing field">>)
    ELSE Ret(d, [k |-> "struct", fields |-> found])

\* The end of the derived visit_map: the fields in the order of the
\* declaration, None for an optional field that was not found.
struct_of(d, rt, found) ==
    IF \E i \in 1..Len(rt.fields) :
            ~has_key(found, rt.fields[i].name) /\ ~rt.fields[i].optional
    THEN RetFail(d, <<"Message", "missing field">>)
    ELSE Ret(d, [k |-> "struct",
                 fields |-> [i \in 1..Len(rt.fields) |->
                    <<rt.fields[i].name,
                      IF has_key(found, rt.fields[i].name)
                      THEN value_of(found, rt.fields[i].name)
                      ELSE [k |-> "none"]>>]])

\* deserialize_struct between SomeIpStructAccess::begin and its end
deserialize_struct(o, d, rt) ==
    LET t == d.next_type IN
    IF t.kind # "Struct" THEN RetFail(d, Panic("Expeceted a struct"))
    ELSE
        Bind([size \in {wanted_length_field(o, t, d.is_in_tlv_struct)} |->
        Bind([opened \in {
                IF size.err # NoErr THEN RetFail(d, size.err)
                ELSE IF size.v # 0 THEN begin_length_delimited_section(o, d, size.v)
                ELSE Ret(d, 0)} |->
        LET in_section == size.v # 0
            was_in_tlv == d.is_in_tlv_struct
        IN  IF opened.d.err # NoErr THEN opened
            ELSE
                Bind([result \in {
                        IF t.uses_tlv_serialization
                        THEN Bind([entries \in {map_entries(o, opened.d, t, rt, <<>>)} |->
                                IF entries.d.err # NoErr THEN entries
                                ELSE struct_of(entries.d, rt, entries.v)])
                        ELSE Bind([elements \in {struct_elements(o, opened.d, t, rt,
                                                                 in_section, 1)} |->
                                IF elements.d.err # NoErr THEN elements
                                ELSE Ret(elements.d,
                                         [k |-> "struct", fields |-> elements.v])])} |->
                IF result.d.err # NoErr THEN result
                ELSE
                    Bind([closed \in {IF in_section
                                       THEN end_length_delimited_section(result.d)
                                       ELSE result.d} |->
                        IF closed.err # NoErr THEN Ret(closed, NoValue)
                        ELSE Ret([closed EXCEPT !.is_in_tlv_struct = was_in_tlv],
                                 result.v)])])])])

\* deserialize_enum with deserialize_identifier: one primitive of the raw
\* type and the variant of its value.
deserialize_identifier(o, d) ==
    LET e == d.next_type IN
    IF e.kind # "Enum" THEN RetFail(d, Panic("Expeceted an enum"))
    ELSE IF e.raw_type \in {"bool", "f32", "f64"}
    THEN RetFail(d, Panic("Unsupported raw type for enums"))
    ELSE Bind([r \in {deserialize_primitive(o, d, e.raw_type)} |->
            IF r.d.err # NoErr THEN r
            ELSE LET found == value_to_name(e, r.v.v) IN
                 IF found = <<>>
                 THEN RetFail(r.d, <<"InvalidEnumValue", r.v.v, e.name>>)
                 ELSE Ret(r.d, [k |-> "enum", variant |-> found[1]])])

\* The Deserialize implementation of the data type rt.
Deserialize(o, d, rt) ==
    CASE rt.kind = "Primitive" -> deserialize_primitive(o, d, rt.prim)
      [] rt.kind = "Enum" -> deserialize_identifier(o, d)
      [] rt.kind = "String" -> deserialize_string(o, d)
      [] rt.kind = "Sequence" ->
            IF rt.as_bytes THEN deserialize_byte_buf(o, d) ELSE deserialize_seq(o, d, rt)
      [] OTHER -> deserialize_struct(o, d, rt)

\* from_slice: the deserializer after the value was deserialized and the
\* value, which is the result when err is NoErr; an Err holds no value.
from_slice(o, t, data) ==
    Bind([r \in {Deserialize(o, DeNew(data, t), t)} |->
        IF r.d.err # NoErr THEN Ret(r.d, NoValue) ELSE r])

(***************************************************************************)
(* The calls that are checked: options, schemas that verify() accepts and  *)
(* values of their data types.                                             *)
(***************************************************************************)
\* The longest sequence of elements that is tried.
MaxElems == 2

\* The length of the long strings and byte buffers: one more than a length
\* field of one byte holds.
LongLen == 256

\* How many bytes an input is cut by, or its first length field lowered by.
MaxCut == 2

\* How many unknown tag/value pairs are put into one struct.
MaxUnknown == 2

\* How far around each limit of a length field the lengths are taken.
Spread == 2

\* Byte order, legacy wire type and size selection in every combination.
CoreOptions ==
    {Options(bo, "Utf8", FALSE, FALSE, 4, 0, legacy, selection, FALSE, "Discard") :
        bo \in {"BigEndian", "LittleEndian"}, legacy \in BOOLEAN,
        selection \in {"Smallest", "AsConfigured"}}

\* One more configuration for each of the other options.
OtherOptions ==
    {Options("BigEndian", "Utf8", FALSE, FALSE, 4, 0, FALSE, "Smallest", FALSE, "Fail"),
     Options("BigEndian", "Utf8", FALSE, FALSE, 4, 0, FALSE, "Smallest", TRUE, "Keep"),
     Options("BigEndian", "Utf8", TRUE, TRUE, 4, 0, FALSE, "Smallest", FALSE, "Discard"),
     Options("BigEndian", "Ascii", FALSE, TRUE, 4, 0, TRUE, "AsConfigured", FALSE, "Discard"),
     Options("BigEndian", "Utf16", TRUE, TRUE, 4, 0, FALSE, "Smallest", FALSE, "Discard"),
     Options("LittleEndian", "Utf16", FALSE, FALSE, 4, 0, FALSE, "Smallest", FALSE, "Keep"),
     Options("LittleEndian", "Utf16", TRUE, FALSE, 4, 0, FALSE, "Smallest", FALSE, "Discard"),
     Options("BigEndian", "Utf8", FALSE, FALSE, 0, 0, FALSE, "Smallest", FALSE, "Discard"),
     Options("BigEndian", "Utf8", FALSE, FALSE, 4, 2, TRUE, "AsConfigured", FALSE, "Discard")}

OptionsSet == CoreOptions \cup OtherOptions

U8 == Primitive("u8")

\* The raw values whose bytes are read as an enum or a bool.
RawValues == {-1337, -1, 0, 1, 2, 42, 199, 200, 255}

ShortString == String(0, 5, 1)

EmptyString == String(0, 0, 0)

ByteVec == Sequence(1, 5, U8, 1, FALSE)

\* The enum of test_enum.
TestEnum ==
    Enum("TestEnum", <<<<"First", 0>>, <<"Second", 42>>, <<"Third", -1337>>>>, "i16")

\* The schemas that are no TLV structs.
PlainSchemas ==
    {TestEnum, Enum("Small", <<<<"A", 1>>, <<"B", 200>>>>, "u8"),
     U8, Primitive("bool"), Primitive("i16"), Primitive("u32"), Primitive("i64"),
     ShortString, String(2, 2, 0), String(2, 2, 1), String(0, 300, 1), String(0, 300, 2),
     ByteVec,
     Sequence(0, 255, U8, 1, TRUE), Sequence(0, 300, U8, 1, TRUE),
     Sequence(0, 300, U8, 2, TRUE),
     Sequence(2, 2, Primitive("i16"), 0, FALSE),
     Sequence(2, 2, Primitive("i16"), 2, FALSE),
     Sequence(1, 2, Primitive("i16"), 1, FALSE),
     Sequence(0, 3, ShortString, 1, FALSE),
     Sequence(0, 3, EmptyString, 1, FALSE),
     Struct(<<Field("a", -1, U8, FALSE), Field("b", -1, ShortString, FALSE)>>,
            FALSE, FALSE, 0),
     Struct(<<Field("a", -1, Primitive("i16"), FALSE), Field("b", -1, Primitive("u32"), FALSE),
              Field("c", -1, ByteVec, FALSE)>>, FALSE, FALSE, 2),
     Struct(<<Field("a", -1, U8, FALSE), Field("b", -1, EmptyString, FALSE)>>,
            FALSE, FALSE, 1),
     Struct(<<Field("a", -1, Primitive("i16"), FALSE), Field("b", -1, ShortString, FALSE)>>,
            FALSE, TRUE, 2),
     Struct(<<Field("a", -1, ShortString, FALSE),
              Field("b", -1, Struct(<<Field("x", 0, ShortString, TRUE)>>, TRUE, FALSE, 1),
                    FALSE)>>, FALSE, FALSE, 0)}

\* A TLV struct as the field of a TLV struct: the largest payload of the
\* inner struct is 256 bytes with the tag and 254 bytes without it.
Nested ==
    Struct(<<Field("a", 0,
                   Struct(<<Field("x", 0, Sequence(253, 253, U8, 1, TRUE), FALSE)>>,
                          TRUE, FALSE, 1),
                   FALSE)>>, TRUE, TRUE, 0)

\* The TLV structs.
TlvSchemas ==
    {Struct(<<Field("a", 1, Primitive("i16"), FALSE), Field("b", 2, Primitive("u32"), FALSE),
              Field("c", 3, ByteVec, FALSE)>>, TRUE, FALSE, 2),
     Struct(<<Field("a", 0, Primitive("u32"), TRUE)>>, TRUE, FALSE, 1),
     Struct(<<Field("a", 0, ShortString, TRUE), Field("b", 1, U8, FALSE)>>, TRUE, FALSE, 1),
     Struct(<<Field("a", 0, Sequence(0, 300, U8, 4, TRUE), FALSE)>>, TRUE, FALSE, 4),
     Struct(<<Field("a", 0, Sequence(0, 300, U8, 1, TRUE), FALSE),
              Field("b", 1, ShortString, FALSE)>>, TRUE, FALSE, 2),
     Struct(<<Field("a", 0, Primitive("u32"), FALSE), Field("b", 1, ShortString, FALSE)>>,
            TRUE, TRUE, 0),
     Struct(<<Field("a", 0, U8, FALSE), Field("b", 1, ByteVec, TRUE)>>, TRUE, TRUE, 1),
     Struct(<<Field("a", 0, Struct(<<Field("x", -1, U8, FALSE),
                                     Field("y", -1, ShortString, FALSE)>>, FALSE, FALSE, 1),
                    FALSE),
              Field("b", 1, Struct(<<Field("x", 0, U8, FALSE)>>, TRUE, FALSE, 1), TRUE)>>,
            TRUE, FALSE, 2),
     Struct(<<Field("a", 0, ByteVec, TRUE), Field("b", 1, Primitive("i64"), TRUE)>>,
            TRUE, FALSE, 1),
     Struct(<<Field("a", 0, String(2, 2, 1), FALSE),
              Field("b", 1, Sequence(1, 1, Primitive("i16"), 1, FALSE), FALSE)>>,
            TRUE, FALSE, 1),
     Nested}

Schemas == PlainSchemas \cup TlvSchemas

\* The samples of a primitive.
PrimValues(prim) ==
    CASE prim = "bool" -> {1, 0}
      [] prim = "u8" -> {7, 200}
      [] prim = "i16" -> {-1, 258}
      [] prim = "u32" -> {42, 16909060}
      [] OTHER -> {-2, 1000000}

Chars(n) == [i \in 1..n |-> 97 + (i % 3)]

Bytes(n) == [i \in 1..n |-> 1 + (i % 100)]

RECURSIVE Values(_, _)
RECURSIVE StructValues(_, _)
\* The pairs of the fields of a struct from index i on.
StructValues(t, i) ==
    IF i > Len(t.fields) THEN {<<>>}
    ELSE
        LET f == t.fields[i]
            present == Values(f.field_type, TRUE)
            here == IF f.optional
                    THEN {[k |-> "none"]} \cup {[k |-> "some", v |-> v] : v \in present}
                    ELSE present
        IN  {<<<<f.name, v>>>> \o rest : v \in here, rest \in StructValues(t, i + 1)}

\* The values of the data type of a schema; nested ones are fewer.
Values(t, nested) ==
    CASE t.kind = "Enum" ->
            {[k |-> "enum", variant |-> t.values[i][1]] : i \in 1..Len(t.values)}
      [] t.kind = "Primitive" ->
            {[k |-> t.prim, v |-> x] :
                x \in IF nested THEN {CHOOSE x \in PrimValues(t.prim) : TRUE}
                      ELSE PrimValues(t.prim)}
      [] t.kind = "String" ->
            {[k |-> "str", chars |-> Chars(n)] :
                n \in {t.min_size, Min(t.max_size, 2)}
                      \cup IF ~nested /\ t.max_size >= LongLen THEN {LongLen} ELSE {}}
            \cup IF ~nested /\ t.max_size >= 4
                 THEN {[k |-> "str", chars |-> <<104, 26085>>]} ELSE {}
      [] t.kind = "Sequence" /\ t.as_bytes ->
            {[k |-> "bytes", bytes |-> Bytes(n)] :
                n \in {t.min_elements, Max(t.min_elements, Min(t.max_elements, 3))}
                      \cup IF t.max_elements >= LongLen THEN {LongLen} ELSE {}}
      [] t.kind = "Sequence" ->
            {[k |-> "seq", elems |-> [i \in 1..n |-> e]] :
                n \in {t.min_elements, Min(t.max_elements, MaxElems)},
                e \in Values(t.element_type, TRUE)}
      [] OTHER -> {[k |-> "struct", fields |-> pairs] : pairs \in StructValues(t, 1)}

(***************************************************************************)
(* The inputs that are handed to from_slice, made from the bytes to_vec    *)
(* returned.                                                               *)
(***************************************************************************)
RECURSIVE Flatten(_)
\* The sequences of a sequence, one after the other.
Flatten(seqs) ==
    IF Len(seqs) = 0 THEN <<>>
    ELSE seqs[1] \o Flatten(SubSeq(seqs, 2, Len(seqs)))

\* The bytes serialize_field writes for each pair of a TLV struct value.
Pieces(o, t, v) ==
    [i \in 1..Len(v.fields) |->
        serialize_field(o, SerNew, t, v.fields[i][1], v.fields[i][2]).writer]

\* The bytes of a top level TLV struct around the bytes of its fields.
TlvFrame(o, t, payload) ==
    LET w == wanted_length_field(o, t, FALSE).v IN
    IF w = 0 THEN payload ELSE write_ux(Len(payload), w, o.BYTE_ORDER) \o payload

\* An id no field of a schema has.
UnknownId == 4000

\* The width of the length field a tag of the wire type announces in the
\* struct, 0 when there is none.
TagWidth(o, t, wire_type) ==
    IF wire_type = 4 THEN overwrite_length_field_size(o, t.length_field_size)
    ELSE get_length_field_size(wire_type)

\* A well formed tag/value pair of an unknown id.
UnknownPair(o, t, wire_type) ==
    write_ux(wire_type_to_u16(wire_type) + UnknownId, 2, o.BYTE_ORDER)
    \o IF get_fixed_size(wire_type) # 0 THEN Bytes(get_fixed_size(wire_type))
       ELSE write_ux(3, TagWidth(o, t, wire_type), o.BYTE_ORDER) \o Bytes(3)

\* The struct with n unknown pairs after its first at pieces.
WithUnknown(o, t, v, at, wire_type, n) ==
    LET pieces == Pieces(o, t, v) IN
    TlvFrame(o, t,
        Flatten(SubSeq(pieces, 1, at))
        \o Flatten([j \in 1..n |-> UnknownPair(o, t, wire_type)])
        \o Flatten(SubSeq(pieces, at + 1, Len(pieces))))

\* The struct with the tag of its piece i given another wire type.
Retagged(o, t, v, i, wire_type) ==
    LET pieces == Pieces(o, t, v)
        id == t.fields[field_by_name(t, v.fields[i][1])].id
    IN  TlvFrame(o, t,
            Flatten([pieces EXCEPT ![i] =
                write_ux(wire_type_to_u16(wire_type) + id, 2, o.BYTE_ORDER)
                \o SubSeq(@, 3, Len(@))]))

\* The schema with another length field size for the type of field i.
OtherWidth(t, i, w) ==
    [t EXCEPT !.fields[i].field_type.length_field_size = w]

\* The bytes with the first length field, of w bytes, lowered by k.
Shrunk(o, bytes, w, k) ==
    write_ux(from_be(to_be(SubSeq(bytes, 1, w), o.BYTE_ORDER)) - k, w, o.BYTE_ORDER)
    \o SubSeq(bytes, w + 1, Len(bytes))

\* The bytes with the first length field, of w bytes, raised by k and k more
\* bytes behind them.
Grown(o, bytes, w, k) ==
    write_ux(from_be(to_be(SubSeq(bytes, 1, w), o.BYTE_ORDER)) + k, w, o.BYTE_ORDER)
    \o SubSeq(bytes, w + 1, Len(bytes)) \o [i \in 1..k |-> 97]

\* The schema of a string or a sequence with the limits lo and hi of its size.
Limited(t, lo, hi) ==
    IF t.kind = "String" THEN [t EXCEPT !.min_size = lo, !.max_size = hi]
    ELSE [t EXCEPT !.min_elements = lo, !.max_elements = hi]

\* The schema of a struct with its field list in the reverse order.
Reordered(t) ==
    [t EXCEPT !.fields = [i \in 1..Len(t.fields) |-> t.fields[Len(t.fields) + 1 - i]]]

TrailingBytes == {<<42>>, <<0, 0>>}

IsTlv(t) == t.kind = "Struct" /\ t.uses_tlv_serialization

(***************************************************************************)
(* The state machine: one call of to_vec, then one call of from_slice.     *)
(***************************************************************************)
NoSel == [configured |-> 0, len |-> 0, is_in_tlv_struct |-> FALSE, result |-> NoValue]

\* from_reader over a reader that delivers the bytes data and then reports
\* the end of the stream, with the declared length len.
from_reader(o, t, data, len) ==
    Bind([r \in {Deserialize(o, DeNewReader(data, len, t), t)} |->
        IF r.d.err # NoErr THEN Ret(r.d, NoValue) ELSE r])

\* The struct of test_struct_tlv, with the fields first, second and third
\* under the names a, b and c, and its value.
Test ==
    Struct(<<Field("a", 1, Primitive("i16"), FALSE), Field("b", 2, Primitive("u32"), FALSE),
             Field("c", 3, ByteVec, FALSE)>>, TRUE, FALSE, 2)

teste ==
    [k |-> "struct",
     fields |-> <<<<"a", [k |-> "i16", v |-> -1]>>, <<"b", [k |-> "u32", v |-> 42]>>,
                  <<"c", [k |-> "seq", elems |-> [i \in 1..3 |-> [k |-> "u8", v |-> i]]]>>>>]

Init ==
    /\ opts \in OptionsSet
    /\ ty \in Schemas
    /\ value \in Values(ty, FALSE) \cup (IF ty = Test THEN {teste} ELSE {})
    /\ pc = "start"
    /\ ser = SerNew
    /\ mode = [m |-> "none"]
    /\ dety = ty
    /\ input = <<>>
    /\ de = DeNew(<<>>, ty)
    /\ dval = NoValue
    /\ sel = NoSel

\* to_vec
ToVec ==
    /\ pc = "start"
    /\ ser' = to_vec(opts, ty, value)
    /\ pc' = "encoded"
    /\ UNCHANGED <<opts, ty, value, mode, dety, input, de, dval, sel>>

\* to_vec of a struct whose schema lists the fields in another order than
\* the data type supplies them.
ToVecReordered ==
    /\ pc = "start"
    /\ ty.kind = "Struct"
    /\ Len(ty.fields) > 1
    /\ ser' = to_vec(opts, Reordered(ty), value)
    /\ dety' = Reordered(ty)
    /\ pc' = "reordered"
    /\ UNCHANGED <<opts, ty, value, mode, input, de, dval, sel>>

\* from_slice of the bytes data under the schema t, after to_vec returned Ok.
Decode(m, t, data) ==
    /\ pc = "encoded"
    /\ ser.err = NoErr
    /\ LET r == from_slice(opts, t, data) IN
        /\ de' = r.d
        /\ dval' = r.v
    /\ mode' = m
    /\ dety' = t
    /\ input' = data
    /\ pc' = "decoded"
    /\ UNCHANGED <<opts, ty, value, ser, sel>>

\* The bytes as they were written.
FromSlice ==
    /\ pc = "encoded"
    /\ Decode([m |-> "same"], ty, ser.writer)

\* The bytes with more bytes behind them.
FromSliceTrailing ==
    \E extra \in TrailingBytes :
        /\ pc = "encoded"
        /\ Decode([m |-> "trailing", extra |-> extra], ty, ser.writer \o extra)

\* The bytes without their last k.
FromSliceCut ==
    \E k \in 1..MaxCut :
        /\ k <= Len(ser.writer)
        /\ Decode([m |-> "cut", k |-> k], ty, SubSeq(ser.writer, 1, Len(ser.writer) - k))

\* The bytes with the outermost length field lowered by k.
FromSliceShrunk ==
    \E k \in 1..MaxCut :
        LET w == wanted_length_field(opts, ty, FALSE).v IN
        /\ w # 0
        /\ Len(ser.writer) >= w + k
        /\ Decode([m |-> "shrunk", k |-> k], ty, Shrunk(opts, ser.writer, w, k))

\* The bytes with the outermost length field raised by k and k more bytes.
FromSliceGrown ==
    \E k \in 1..MaxCut :
        LET w == wanted_length_field(opts, ty, FALSE).v IN
        /\ pc = "encoded"
        /\ ser.err = NoErr
        /\ w # 0
        /\ ~exceeds(Len(ser.writer) - w + k, w)
        /\ Decode([m |-> "grown", k |-> k], ty, Grown(opts, ser.writer, w, k))

\* A TLV struct with pairs of an unknown id among its fields.
FromSliceUnknown ==
    /\ IsTlv(ty)
    /\ \E at \in 0..Len(ty.fields), wire_type \in 0..7, n \in 1..MaxUnknown :
        /\ get_fixed_size(wire_type) # 0 \/ TagWidth(opts, ty, wire_type) # 0
        /\ Decode([m |-> "unknown", at |-> at, wire_type |-> wire_type, n |-> n], ty,
                  WithUnknown(opts, ty, value, at, wire_type, n))

\* A TLV struct with another wire type in the tag of one of its fields.
FromSliceRetagged ==
    /\ IsTlv(ty)
    /\ \E i \in 1..Len(ty.fields), wire_type \in 0..7 :
        /\ value.fields[i][2].k # "none"
        /\ Decode([m |-> "retagged", i |-> i, wire_type |-> wire_type], ty,
                  Retagged(opts, ty, value, i, wire_type))

\* A TLV struct read under a schema with another length field size for one
\* of its fields.
FromSliceOtherWidth ==
    /\ IsTlv(ty)
    /\ \E i \in 1..Len(ty.fields), w \in LengthFieldSizes :
        /\ get_wire_type(ty.fields[i].field_type) = 4
        /\ ty.fields[i].field_type.length_field_size # w
        /\ Decode([m |-> "width", i |-> i, w |-> w], OtherWidth(ty, i, w), ser.writer)

\* A string or sequence with a length field read under a schema with other
\* limits of its size and a length field of the same size.
\* to_vec of the value under the schema with other limits: a string or a
\* sequence that may lie below the minimum or above the maximum.  The schema
\* with the other limits is one that has the length field size it needs.
ToVecOtherLimits ==
    \E lo \in 0..(MaxElems + 1), hi \in 0..(MaxElems + 1) :
        /\ pc = "start"
        /\ ty.kind \in {"String", "Sequence"}
        /\ lo <= hi
        /\ wanted_length_field(opts, Limited(ty, lo, hi), FALSE).err = NoErr
        /\ ser' = to_vec(opts, Limited(ty, lo, hi), value)
        /\ dety' = Limited(ty, lo, hi)
        /\ pc' = "limited"
        /\ UNCHANGED <<opts, ty, value, mode, input, de, dval, sel>>

FromSliceOtherLimits ==
    \E lo \in 0..(MaxElems + 1), hi \in 0..(MaxElems + 1) :
        /\ pc = "encoded"
        /\ ty.kind \in {"String", "Sequence"}
        /\ wanted_length_field(opts, ty, FALSE).v # 0
        /\ lo <= hi
        /\ wanted_length_field(opts, Limited(ty, lo, hi), FALSE).v # 0
        /\ Decode([m |-> "limits", lo |-> lo, hi |-> hi], Limited(ty, lo, hi), ser.writer)

\* A TLV struct with its pairs in another order.
\* from_slice of other bytes for a UTF-16 string with byte order mark: the
\* length field as written and behind it the mark and the code units in the
\* other byte order ("swapped"), two zero bytes in the place of the mark
\* ("unmarked"), nothing ("emptied"), all but the last byte ("odd") or all but
\* the last code unit ("unterminated"), the length field naming what follows.
FromSliceUtf16 ==
    \E how \in {"swapped", "unmarked", "emptied", "odd", "unterminated"} :
        /\ pc = "encoded"
        /\ ty.kind = "String"
        /\ opts.STRING_ENCODING = "Utf16"
        /\ opts.STRING_WITH_BOM
        /\ ser.err = NoErr
        /\ LET w == wanted_length_field(opts, ty, FALSE).v
               text == SubSeq(ser.writer, w + 1, Len(ser.writer))
               other == CASE how = "swapped" ->
                                [i \in 1..Len(text) |->
                                    IF i % 2 = 1 THEN text[i + 1] ELSE text[i - 1]]
                          [] how = "unmarked" -> <<0, 0>> \o SubSeq(text, 3, Len(text))
                          [] how = "emptied" -> <<>>
                          [] how = "odd" -> SubSeq(text, 1, Len(text) - 1)
                          [] how = "unterminated" -> SubSeq(text, 1, Len(text) - 2)
           IN  /\ Len(text) < LongLen
               /\ how \in {"emptied", "odd", "unterminated"} => w # 0
               /\ how = "unterminated" => opts.STRING_WITH_TERMINATOR
               /\ Decode([m |-> "utf16", how |-> how], ty,
                         (IF w = 0 THEN <<>> ELSE write_ux(Len(other), w, opts.BYTE_ORDER))
                            \o other)

\* from_slice of the bytes of a raw value for an enum or a bool.
FromSliceRaw ==
    \E raw \in RawValues :
        /\ pc = "encoded"
        /\ ty.kind = "Enum" \/ ty = Primitive("bool")
        /\ Decode([m |-> "raw", raw |-> raw], ty,
                  write_ux(raw, max_len(opts, ty, FALSE).v, opts.BYTE_ORDER))

FromSlicePermuted ==
    /\ IsTlv(ty)
    /\ \E p \in [1..Len(ty.fields) -> 1..Len(ty.fields)] :
        /\ \A i, j \in DOMAIN p : p[i] = p[j] => i = j
        /\ \E i \in DOMAIN p : p[i] # i
        /\ Decode([m |-> "permuted", p |-> p], ty,
                  TlvFrame(opts, ty, Flatten([i \in DOMAIN p |->
                                                Pieces(opts, ty, value)[p[i]]])))

\* The bytes as they were written, read under the schema that lists the
\* fields in the other order into the same data type.
FromSliceReordered ==
    /\ pc = "reordered"
    /\ ser.err = NoErr
    /\ LET r == Deserialize(opts, DeNew(ser.writer, dety), ty) IN
        /\ de' = r.d
        /\ dval' = IF r.d.err # NoErr THEN NoValue ELSE r.v
    /\ mode' = [m |-> "reordered"]
    /\ input' = ser.writer
    /\ pc' = "decoded"
    /\ UNCHANGED <<opts, ty, value, ser, dety, sel>>

\* from_reader of the bytes as they were written or without their last cut
\* bytes, declared with their length, over a stream that ends short bytes
\* before the declared length.
FromReader ==
    \E cut \in 0..MaxCut, short \in 0..MaxCut :
        LET len == Len(ser.writer) - cut IN
        /\ pc = "encoded"
        /\ ser.err = NoErr
        /\ cut = 0 \/ short = 0
        /\ cut + short <= Len(ser.writer)
        /\ LET r == from_reader(opts, ty, SubSeq(ser.writer, 1, len - short), len) IN
            /\ de' = r.d
            /\ dval' = r.v
        /\ mode' = [m |-> "reader", cut |-> cut, short |-> short, len |-> len]
        /\ dety' = ty
        /\ input' = SubSeq(ser.writer, 1, len)
        /\ pc' = "decoded"
        /\ UNCHANGED <<opts, ty, value, ser, sel>>

\* from_reader of a TLV struct with a pair of an unknown id behind its
\* fields, declared with its length, over a stream that ends short bytes
\* before the declared length, inside the unknown pair.
FromReaderUnknown ==
    /\ IsTlv(ty)
    /\ pc = "encoded"
    /\ ser.err = NoErr
    /\ \E wire_type \in 0..7, short \in 1..MaxCut :
        /\ get_fixed_size(wire_type) # 0 \/ TagWidth(opts, ty, wire_type) # 0
        /\ \E data \in {WithUnknown(opts, ty, value, Len(value.fields), wire_type, 1)} :
            /\ \E r \in {from_reader(opts, ty, SubSeq(data, 1, Len(data) - short),
                                      Len(data))} :
                /\ de' = r.d
                /\ dval' = r.v
            /\ input' = data
        /\ mode' = [m |-> "reader_unknown", wire_type |-> wire_type, short |-> short]
        /\ dety' = ty
        /\ pc' = "decoded"
        /\ UNCHANGED <<opts, ty, value, ser, sel>>

Next ==
    \/ ToVec
    \/ ToVecReordered
    \/ ToVecOtherLimits
    \/ FromSlice
    \/ FromSliceTrailing
    \/ FromSliceCut
    \/ FromSliceShrunk
    \/ FromSliceGrown
    \/ FromSliceUnknown
    \/ FromSliceRetagged
    \/ FromSliceOtherWidth
    \/ FromSliceOtherLimits
    \/ FromSlicePermuted
    \/ FromSliceUtf16
    \/ FromSliceRaw
    \/ FromSliceReordered
    \/ FromReader
    \/ FromReaderUnknown

Spec == Init /\ [][Next]_vars

(***************************************************************************)
(* One call of select_length_field_size for every options configuration,   *)
(* configured size and context, with lengths around the limits of the      *)
(* length fields.                                                          *)
(***************************************************************************)
SelectLengths ==
    UNION {{limit + k : k \in 0..Spread} \cup {limit - k : k \in 0..Min(Spread, limit)} :
            limit \in {0, U8Max, U16Max}}

InitSel ==
    /\ opts \in OptionsSet
    /\ ty = U8
    /\ value = [k |-> "u8", v |-> 0]
    /\ pc = "select"
    /\ ser = SerNew
    /\ mode = [m |-> "none"]
    /\ dety = ty
    /\ input = <<>>
    /\ de = DeNew(<<>>, ty)
    /\ dval = NoValue
    /\ sel \in {[configured |-> configured, len |-> len,
                 is_in_tlv_struct |-> is_in_tlv_struct, result |-> NoValue] :
                    configured \in LengthFieldSizes, len \in SelectLengths,
                    is_in_tlv_struct \in BOOLEAN}

\* select_length_field_size
Select ==
    /\ pc = "select"
    /\ sel' = [sel EXCEPT !.result =
                select_length_field_size(opts, sel.configured, sel.len,
                                         sel.is_in_tlv_struct)]
    /\ pc' = "selected"
    /\ UNCHANGED <<opts, ty, value, ser, mode, dety, input, de, dval>>

NextSel == Select

SpecSel == InitSel /\ [][NextSel]_vars

(***************************************************************************)
(* to_vec of one primitive of two, four or eight bytes under each byte     *)
(* order, and from_slice of the bytes in reverse under the other byte      *)
(* order.  A float is its bit pattern.                                     *)
(***************************************************************************)
EndValues(prim) ==
    CASE prim = "u16" -> {0, 1, 255, 256, 4660, 32768, 65535}
      [] prim = "i16" -> {-32768, -2, -1, 0, 258, 32767}
      [] prim \in {"u32", "f32"} -> {0, 1, 65536, 16909060, 305419896, 1065353216, 2147483647}
      [] prim = "i32" -> {-2147483647, -16909060, -1, 0, 16909060, 2147483647}
      [] prim = "i64" -> {-2147483647, -2, 0, 1000000, 2147483647}
      [] OTHER -> {0, 1, 16909060, 2147483647}

InitEnd ==
    /\ opts \in {Options(bo, "Utf8", FALSE, FALSE, 4, 0, FALSE, "Smallest", FALSE, "Discard") :
                    bo \in {"BigEndian", "LittleEndian"}}
    /\ ty \in {Primitive(prim) :
                    prim \in {"u16", "i16", "u32", "i32", "f32", "u64", "i64", "f64"}}
    /\ value \in {[k |-> ty.prim, v |-> x] : x \in EndValues(ty.prim)}
    /\ pc = "start"
    /\ ser = SerNew
    /\ mode = [m |-> "none"]
    /\ dety = ty
    /\ input = <<>>
    /\ de = DeNew(<<>>, ty)
    /\ dval = NoValue
    /\ sel = NoSel

\* from_slice, under the other byte order, of the bytes of to_vec in reverse.
FromSliceReversed ==
    /\ pc = "encoded"
    /\ ser.err = NoErr
    /\ LET other == [opts EXCEPT !.BYTE_ORDER = IF @ = "BigEndian" THEN "LittleEndian"
                                                ELSE "BigEndian"]
           bytes == [i \in 1..Len(ser.writer) |-> ser.writer[Len(ser.writer) + 1 - i]]
           r == from_slice(other, ty, bytes)
       IN  /\ de' = r.d
           /\ dval' = r.v
           /\ input' = bytes
    /\ mode' = [m |-> "reversed"]
    /\ dety' = ty
    /\ pc' = "decoded"
    /\ UNCHANGED <<opts, ty, value, ser, sel>>

NextEnd ==
    \/ ToVec
    \/ FromSliceReversed

SpecEnd == InitEnd /\ [][NextEnd]_vars

(***************************************************************************)
(* One call of ExtendedReader::discard, one step for each turn of its      *)
(* loop, over a reader that delivers the bytes of the stream in reads of   *)
(* any size and then reports the end of the stream: Read::read returns     *)
(* Ok(0).  mode holds the len of the call, the local len of the loop and   *)
(* whether the number of turns the loop has taken is odd.                  *)
(***************************************************************************)
\* The longest stream, the largest declared length and the largest len.
MaxStream == 4

\* ExtendedReader::DISCARD_CHUNK_SIZE
DISCARD_CHUNK_SIZE == 8192

InitDiscard ==
    /\ opts = ExampleOptions
    /\ ty = U8
    /\ value = [k |-> "u8", v |-> 0]
    /\ pc = "discard"
    /\ ser = SerNew
    /\ \E len \in 0..MaxStream :
            mode = [m |-> "discard", len |-> len, left |-> len, odd |-> FALSE]
    /\ dety = ty
    /\ input \in {Bytes(n) : n \in 0..MaxStream}
    /\ \E declared \in 0..MaxStream : de = DeNewReader(input, declared, ty)
    /\ dval = NoValue
    /\ sel = NoSel

\* discard up to the loop: updat_remaining(len)?, then the buffer of
\* min(len, DISCARD_CHUNK_SIZE) bytes and the local len.
DiscardBegin ==
    /\ pc = "discard"
    /\ de' = updat_remaining(de, mode.len)
    /\ pc' = IF de'.err # NoErr THEN "returned" ELSE "loop"
    /\ UNCHANGED <<opts, ty, value, ser, mode, dety, input, dval, sel>>

\* One turn of `while len != 0`: Read::read into the first
\* min(len, DISCARD_CHUNK_SIZE) bytes of the buffer returns Ok(n) for some
\* n up to that size, at least 1 while the stream has bytes and 0 at its
\* end, and len -= n.
DiscardRead ==
    /\ pc = "loop"
    /\ mode.left # 0
    /\ LET to_read == Min(mode.left, DISCARD_CHUNK_SIZE) IN
       \E n \in 0..Min(to_read, StreamLeft(de)) :
            /\ n = 0 => StreamLeft(de) = 0
            /\ de' = [de EXCEPT !.pos = @ + n]
            /\ mode' = [mode EXCEPT !.left = @ - n, !.odd = ~@]
    /\ UNCHANGED <<opts, ty, value, pc, ser, dety, input, dval, sel>>

\* The loop is left with len = 0: Ok(()).
DiscardReturn ==
    /\ pc = "loop"
    /\ mode.left = 0
    /\ pc' = "returned"
    /\ UNCHANGED <<opts, ty, value, ser, mode, dety, input, de, dval, sel>>

NextDiscard ==
    \/ DiscardBegin
    \/ DiscardRead
    \/ DiscardReturn

\* The call goes on while it can: every step the code can take is taken.
SpecDiscard == InitDiscard /\ [][NextDiscard]_vars /\ WF_vars(NextDiscard)

(***************************************************************************)
(* The properties.                                                         *)
(***************************************************************************)
\* from_slice of the bytes as to_vec wrote them has returned.
DecodedSame == pc = "decoded" /\ mode.m = "same"

\* C1: round trip.  For every schema, options and value for which to_vec
\* succeeded, from_slice of the bytes it wrote, under the same schema and
\* options, succeeds and returns the value.
C1_RoundTrip == DecodedSame => (de.err = NoErr /\ dval = value)

\* C1: a round trip that loses the value: from_slice of the bytes of a value
\* fails.
C1_RoundTripLost == DecodedSame /\ de.err # NoErr

\* C2: trailing bytes are rejected.  When from_slice succeeds on the bytes
\* to_vec wrote, from_slice of these bytes with n more bytes behind them
\* fails with NotAllBytesConsumed(n).
C2_TrailingRejected ==
    (pc = "decoded" /\ mode.m = "trailing" /\ from_slice(opts, ty, ser.writer).d.err = NoErr)
        => de.err = <<"NotAllBytesConsumed", Len(mode.extra)>>

\* C2: from_slice returned the value of an input that has bytes behind the
\* value, which it did not consume.
C2_TrailingAccepted ==
    /\ pc = "decoded" /\ mode.m = "trailing"
    /\ de.err = NoErr /\ dval = value
    /\ de.pos < Len(input)

RECURSIVE Kept(_, _)
\* The elements of a sequence whose flag in keep is set.
Kept(seq, keep) ==
    IF Len(seq) = 0 THEN <<>>
    ELSE (IF keep[1] THEN <<seq[1]>> ELSE <<>>) \o Kept(Tail(seq), Tail(keep))

\* The value of a TLV struct has an absent optional field.
HasNone == IsTlv(ty) /\ \E i \in 1..Len(value.fields) : value.fields[i][2].k = "none"

\* The fields of the value that are present.
IsPresent == [i \in 1..Len(value.fields) |-> value.fields[i][2].k # "none"]

\* The schema of the struct without its absent fields, no field optional.
PresentSchema ==
    [ty EXCEPT !.fields =
        Kept([i \in 1..Len(ty.fields) |-> [ty.fields[i] EXCEPT !.optional = FALSE]],
             IsPresent)]

\* The value of the struct without its absent fields, no field an Option.
PresentValue ==
    [value EXCEPT !.fields =
        Kept([i \in 1..Len(value.fields) |->
                <<value.fields[i][1],
                  IF value.fields[i][2].k = "some" THEN value.fields[i][2].v
                  ELSE value.fields[i][2]>>],
             IsPresent)]

\* C3: optional fields of a TLV struct.  An absent field contributes no
\* bytes and a present one is encoded like the value that is not optional,
\* so whenever the struct of the present fields alone, none of them
\* optional, serializes, the struct with its optional fields serializes to
\* the same bytes.
C3_OptionalField ==
    (pc = "encoded" /\ IsTlv(ty) /\ \E i \in 1..Len(ty.fields) : ty.fields[i].optional
        /\ to_vec(opts, PresentSchema, PresentValue).err = NoErr)
        => (ser.err = NoErr /\ ser.writer = to_vec(opts, PresentSchema, PresentValue).writer)

\* C3: to_vec panics for an absent optional field of a length delimited type.
C3_NonePanics ==
    /\ pc = "encoded" /\ HasNone
    /\ ser.err # NoErr /\ ser.err[1] = "panic"

\* C4: TLV unknown-tag tolerance.  When from_slice succeeds on the bytes of a
\* TLV struct, from_slice of these bytes with well formed tag/value pairs of
\* an unknown id among the fields (of any wire type 0..7, any number, at any
\* position, the length of the section adjusted) succeeds, returns the same
\* value and has consumed the input to its end.
C4_UnknownTolerated ==
    (pc = "decoded" /\ mode.m = "unknown" /\ from_slice(opts, ty, ser.writer).d.err = NoErr)
        => /\ de.err = NoErr
           /\ dval = from_slice(opts, ty, ser.writer).v
           /\ de.pos = Len(input)
           /\ de.length_delimited_sections = <<>>

\* C4: an unknown pair with a length delimited wire type that names its
\* width makes from_slice panic.
C4_UnknownPanics ==
    /\ pc = "decoded" /\ mode.m = "unknown" /\ mode.wire_type \in 5..7
    /\ from_slice(opts, ty, ser.writer).d.err = NoErr
    /\ de.err # NoErr /\ de.err[1] = "panic"

\* C5: compatibility across length field widths.  The bytes of a TLV struct
\* decode to the value under a schema that differs only in the configured
\* length field size of one length delimited field, for every pair of
\* sizes and every setting of the serializer options.
C5_AnyWidth ==
    (pc = "decoded" /\ mode.m = "width") => (de.err = NoErr /\ dval = value)

\* The wire type and the id in the tag that to_vec wrote for pair i of the
\* TLV struct.
WrittenTag(i) ==
    disect_tag(from_be(to_be(SubSeq(Pieces(opts, ty, value)[i], 1, 2), opts.BYTE_ORDER)))

\* C5, as it holds: the bytes decode to the value under the schema with the
\* other configured size whenever the tag of the field names the size that
\* was written (wire type 5, 6 or 7) or the options overwrite the length
\* field size of every type.  With the legacy wire type the tag of a field
\* written in its configured size is 4, and the deserializer then reads the
\* length field in the size of its own schema.
C5_WidthNamedByTag ==
    (pc = "decoded" /\ mode.m = "width"
        /\ (WrittenTag(mode.i)[1] \in 5..7 \/ opts.OVERWRITE_LENGTH_FIELD_SIZE # 0))
        => (de.err = NoErr /\ dval = value)

\* C5: with the legacy wire type on, a field whose written size differs from
\* the configured one decodes to the value under another configured size.
C5_DecodedUnderOtherWidth ==
    /\ pc = "decoded" /\ mode.m = "width"
    /\ opts.SERIALIZER_USE_LEGACY_WIRE_TYPE /\ opts.OVERWRITE_LENGTH_FIELD_SIZE = 0
    /\ WrittenTag(mode.i)[1] \in 5..7
    /\ get_length_field_size(WrittenTag(mode.i)[1]) # mode.w
    /\ de.err = NoErr /\ dval = value

\* The payload of the top level value, serialized without its length field.
Payload ==
    CASE value.k = "str" ->
            internal_write_str(opts, SerNew,
                (IF opts.STRING_WITH_BOM THEN <<BOM>> ELSE <<>>) \o value.chars
                \o (IF opts.STRING_WITH_TERMINATOR THEN <<0>> ELSE <<>>))
      [] value.k = "bytes" -> write(SerNew, value.bytes)
      [] value.k = "seq" -> serialize_elements(opts, SerNew, ty, value.elems, 1)
      [] value.k = "struct" -> serialize_fields(opts, SerNew, ty, value.fields, 1)
      [] OTHER -> serialize_primitive(opts, SerNew, value)

\* The configured size of the length field of the top level value, 0 for none.
ConfiguredWidth == wanted_length_field(opts, ty, FALSE).v

\* C6: outside of a TLV struct, a value with a length field fails with
\* TooLong exactly when the length of its payload needs a larger length
\* field than the configured one, whatever the maximum of the schema is;
\* when it serializes, the length is written in the configured size.
C6_TooLongIffPayloadTooLong ==
    (pc = "encoded" /\ ConfiguredWidth # 0 /\ Payload.err = NoErr)
        => /\ (ser.err # NoErr /\ ser.err[1] = "TooLong")
                <=> minimum_length_for(Len(Payload.writer)) > ConfiguredWidth
           /\ ser.err = NoErr =>
                ser.writer = write_ux(Len(Payload.writer), ConfiguredWidth, opts.BYTE_ORDER)
                             \o Payload.writer

\* C6: to_vec fails with TooLong for a payload that fits the configured size.
C6_TooLongThoughFits ==
    /\ pc = "encoded" /\ ConfiguredWidth # 0 /\ Payload.err = NoErr
    /\ ser.err # NoErr /\ ser.err[1] = "TooLong"
    /\ minimum_length_for(Len(Payload.writer)) <= ConfiguredWidth

\* The bytes serialize_field wrote for pair i of the top level TLV struct.
Piece(i) == Pieces(opts, ty, value)[i]

\* The schema of the field of pair i.
PieceField(i) == ty.fields[field_by_name(ty, value.fields[i][1])]

\* The sizes w for which the w bytes behind the tag of pair i are a length
\* field over all of the remaining bytes of the pair.
WrittenWidths(i) ==
    {w \in LengthFieldSizes :
        /\ Len(Piece(i)) >= 2 + w
        /\ from_be(to_be(SubSeq(Piece(i), 3, 2 + w), opts.BYTE_ORDER))
                = Len(Piece(i)) - 2 - w}

\* The pairs of the top level TLV struct that hold a length delimited value.
LengthDelimitedPairs ==
    {i \in 1..Len(value.fields) :
        /\ value.fields[i][2].k # "none"
        /\ get_wire_type(PieceField(i).field_type) = 4}

\* C7: the tag of a length delimited field.  After to_vec of a TLV struct,
\* the tag of every string, sequence or struct field has wire type 5, 6 or 7
\* naming the size of the length field written behind it, except that the
\* wire type is 4 exactly when the legacy wire type is on and the written
\* size is the configured one; the id of the tag is the id of the field.
C7_TagNamesWrittenWidth ==
    (pc = "encoded" /\ IsTlv(ty) /\ ser.err = NoErr)
        => /\ ser.writer = TlvFrame(opts, ty, Flatten(Pieces(opts, ty, value)))
           /\ \A i \in LengthDelimitedPairs :
                LET configured == wanted_length_field(opts, PieceField(i).field_type,
                                                      TRUE).v
                IN  /\ WrittenTag(i)[2] = PieceField(i).id
                    /\ WrittenTag(i)[1] \in 4..7
                    /\ Cardinality(WrittenWidths(i)) = 1
                    /\ WrittenTag(i)[1] = 4
                            <=> (opts.SERIALIZER_USE_LEGACY_WIRE_TYPE
                                 /\ WrittenWidths(i) = {configured})
                    /\ WrittenTag(i)[1] # 4
                            => WrittenWidths(i)
                                = {get_length_field_size(WrittenTag(i)[1])}

\* C7: with the legacy wire type on, to_vec wrote a field in another size
\* than the configured one and named that size in the tag.
C7_TagRewrittenUnderLegacy ==
    /\ pc = "encoded" /\ IsTlv(ty) /\ ser.err = NoErr
    /\ opts.SERIALIZER_USE_LEGACY_WIRE_TYPE
    /\ \E i \in LengthDelimitedPairs :
        /\ WrittenTag(i)[1] \in 5..7
        /\ get_length_field_size(WrittenTag(i)[1])
                # wanted_length_field(opts, PieceField(i).field_type, TRUE).v

\* A length field of w bytes holds the length len; every length here is
\* below 2^32.
WidthHolds(w, len) == w = 4 \/ len < Pow2(8 * w)

\* The smallest size of a length field that holds len.
MinimumWidthFor(len) ==
    CHOOSE w \in LengthFieldSizes :
        /\ WidthHolds(w, len)
        /\ \A v \in LengthFieldSizes : WidthHolds(v, len) => w <= v

\* C8: select_length_field_size(configured, L, in_tlv).  In a TLV struct it
\* returns the smallest size that holds L under the policy Smallest and the
\* larger of that and the configured size under AsConfigured, and it does
\* not fail; elsewhere it returns the configured size when that holds L and
\* fails with TooLong(L, configured) otherwise.  The size returned holds L.
C8_SelectLengthFieldSize ==
    pc = "selected" =>
        LET needed == MinimumWidthFor(sel.len) IN
        /\ sel.is_in_tlv_struct
                => /\ sel.result.err = NoErr
                   /\ sel.result.v =
                        IF opts.SERIALIZER_LENGTH_FIELD_SIZE_SELECTION = "Smallest"
                        THEN needed ELSE Max(sel.configured, needed)
        /\ ~sel.is_in_tlv_struct
                => IF needed <= sel.configured
                   THEN sel.result.err = NoErr /\ sel.result.v = sel.configured
                   ELSE sel.result.err = <<"TooLong", sel.len, sel.configured>>
        /\ sel.result.err = NoErr => WidthHolds(sel.result.v, sel.len)

\* C8: in a TLV struct, under AsConfigured, a length the configured size
\* does not hold got a larger size.
C8_SelectedLargerThanConfigured ==
    /\ pc = "selected" /\ sel.is_in_tlv_struct
    /\ opts.SERIALIZER_LENGTH_FIELD_SIZE_SELECTION = "AsConfigured"
    /\ sel.result.err = NoErr /\ sel.result.v > sel.configured

\* The wire types a tag may carry for a field whose schema has the wire
\* type expected.
Compatible(expected, actual) ==
    IF expected \in 0..3 THEN actual = expected ELSE actual \in 4..7

\* The number of bytes of the input up to and including the tag of pair i of
\* the top level TLV struct.
TagEnd(i) ==
    wanted_length_field(opts, ty, FALSE).v
    + Len(Flatten(SubSeq(Pieces(opts, ty, value), 1, i - 1))) + 2

\* from_slice failed on the wire type of the tag of pair i, with the tag the
\* last bytes read.
FailedOnTag(i) ==
    /\ de.err = <<"InvalidWireType", get_wire_type(PieceField(i).field_type),
                  mode.wire_type>>
    /\ de.pos = TagEnd(i)

\* C9: the wire type of the tag of a known field.  When the tag of a field
\* of a TLV struct carries another wire type, from_slice fails with
\* InvalidWireType(expected, actual) right behind the tag, with no byte of
\* the value read, exactly when the wire type is not compatible with the one
\* of the schema of the field: the wire types 0 to 3 are compatible with
\* themselves only and 4 to 7 with each other.  Under a compatible wire type
\* the deserializer goes on to read the value.
C9_WireTypeChecked ==
    (pc = "decoded" /\ mode.m = "retagged")
        => LET expected == get_wire_type(PieceField(mode.i).field_type) IN
           /\ ~Compatible(expected, mode.wire_type) <=> FailedOnTag(mode.i)
           /\ Compatible(expected, mode.wire_type)
                => \/ de.pos > TagEnd(mode.i)
                   \/ de.log[Len(de.log)].reader = Len(input) - TagEnd(mode.i)

\* C9: a string, sequence or struct field whose tag was given a fixed size
\* wire type is refused behind the tag.
C9_RefusedBehindTag ==
    /\ pc = "decoded" /\ mode.m = "retagged"
    /\ get_wire_type(PieceField(mode.i).field_type) = 4
    /\ mode.wire_type \in 0..3
    /\ FailedOnTag(mode.i)

\* C9: a field written with one of the wire types 5 to 7 decodes under the
\* wire type 4.
C9_AcceptedUnderOtherWireType ==
    /\ pc = "decoded" /\ mode.m = "retagged"
    /\ WrittenTag(mode.i)[1] \in 5..7 /\ mode.wire_type = 4
    /\ de.err = NoErr /\ dval = value

\* The bytes left in the input after call j of before_read and the read,
\* discard or section opening it belongs to.
ReaderAfter(j) ==
    IF j < Len(de.log) THEN de.log[j + 1].reader ELSE Len(de.input) - de.pos

\* The counter call j of before_read checked, after the call: the one of
\* the section that was innermost or, with no section open, of the input.
InnermostAfter(j) ==
    IF de.log[j].sections = <<>> THEN ReaderAfter(j)
    ELSE de.log[j].after[Len(de.log[j].after)]

\* Call j of before_read failed exactly when its length exceeded the counter
\* of the innermost section or, with no section open, of the input, and
\* from_slice then failed with TooShort.
RefusedIffExceeds(j) ==
    LET e == de.log[j] IN
    /\ e.remaining = IF e.sections = <<>> THEN e.reader
                      ELSE e.sections[Len(e.sections)]
    /\ ~e.ok <=> e.len > e.remaining
    /\ ~e.ok => (j = Len(de.log) /\ de.err = <<"TooShort">>)

\* C10, as stated: every read, discard and section opening of k bytes fails
\* with TooShort exactly when k exceeds the counter of the innermost open
\* section or, with no section open, of the input; when it succeeds that
\* counter is lower by k and the counter of no other section changed.
C10_InnermostCounterLowered ==
    pc = "decoded" =>
        \A j \in 1..Len(de.log) :
            LET e == de.log[j] IN
            /\ RefusedIffExceeds(j)
            /\ e.ok => /\ InnermostAfter(j) = e.remaining - e.len
                       /\ \A n \in 1..(Len(e.sections) - 1) : e.after[n] = e.sections[n]

\* C10, as it holds: every read, discard and section opening of k bytes
\* fails with TooShort exactly when k exceeds the counter of the innermost
\* open section or, with no section open, the bytes left in the input, and
\* from_slice fails with TooShort in no other way.  When it succeeds, the
\* counter of the innermost open section, if there is one, is lower by k and
\* the counter of no other section changed; the bytes left in the input of
\* from_slice are fewer by k after a read or a discard and as many as before
\* after a section opening, which takes no byte of the input by itself.  No counter
\* of a section exceeds the bytes left in the input, so that k bytes are
\* there whenever the call succeeds.
C10_BeforeRead ==
    pc = "decoded" =>
        /\ \A j \in 1..Len(de.log) :
            LET e == de.log[j]
                n == Len(e.sections)
            IN  /\ RefusedIffExceeds(j)
                /\ e.ok =>
                    /\ e.len <= e.reader
                    /\ Len(e.after) = n
                    /\ \A i \in 1..n :
                            e.after[i] = e.sections[i] - (IF i = n THEN e.len ELSE 0)
                    /\ ~de.stream
                            => ReaderAfter(j)
                                = e.reader - (IF e.what = "section" THEN 0 ELSE e.len)
        /\ de.err = <<"TooShort">>
                => (Len(de.log) > 0 /\ ~de.log[Len(de.log)].ok)

\* C10: a read inside a section was refused although the input held the
\* bytes.
C10_RefusedInsideSection ==
    /\ pc = "decoded" /\ de.err = <<"TooShort">>
    /\ Len(de.log) > 0
    /\ LET e == de.log[Len(de.log)] IN
        /\ e.what = "read" /\ e.sections # <<>>
        /\ e.len > e.remaining /\ e.len <= e.reader

\* C11: closing a length delimited section.  Every end of a section
\* succeeded exactly when the counter of the section was 0 and failed with
\* NotAllBytesConsumed(counter) otherwise, and from_slice fails with
\* NotAllBytesConsumed in no other way; when from_slice returned a value,
\* every section that was opened has been ended with no byte left and no
\* section is open.
C11_SectionsClosedEmpty ==
    pc = "decoded" =>
        /\ \A j \in 1..Len(de.closed) :
                de.closed[j] # 0
                    => (j = Len(de.closed)
                        /\ de.err = <<"NotAllBytesConsumed", de.closed[j]>>)
        /\ (de.err # NoErr /\ de.err[1] = "NotAllBytesConsumed")
                => (Len(de.closed) > 0 /\ de.closed[Len(de.closed)] # 0)
        /\ de.err = NoErr
                => /\ de.length_delimited_sections = <<>>
                   /\ Cardinality({j \in 1..Len(de.log) :
                                        de.log[j].what = "section" /\ de.log[j].ok})
                        = Len(de.closed)
                   /\ \A j \in 1..Len(de.closed) : de.closed[j] = 0

\* C11: the section of a struct was ended with bytes left.
C11_ClosedWithBytesLeft ==
    /\ pc = "decoded" /\ mode.m = "grown" /\ ty.kind = "Struct"
    /\ de.err = <<"NotAllBytesConsumed", mode.k>>
    /\ de.closed # <<>> /\ de.closed[Len(de.closed)] = mode.k
\* The two calls returned the same value or failed with an error of the
\* same kind.
SameOutcome(a, b) ==
    /\ a.v = b.v
    /\ (a.d.err = NoErr) = (b.d.err = NoErr)
    /\ a.d.err # NoErr => a.d.err[1] = b.d.err[1]

\* C12: from_reader over a stream that delivers the bytes b, declared with
\* the length of b, returns what from_slice returns on b: the same value or
\* an error of the same kind.
C12_ReaderAsSlice ==
    (pc = "decoded" /\ mode.m = "reader" /\ mode.short = 0)
        => SameOutcome(Ret(de, dval), from_slice(opts, ty, input))

\* C12: from_reader panicked on the eight bytes of a primitive that
\* from_slice decodes.
C12_ReaderPanicsOnEightBytes ==
    /\ pc = "decoded" /\ mode.m = "reader" /\ mode.short = 0 /\ mode.cut = 0
    /\ ty.kind = "Primitive" /\ get_len(ty.prim) = 8
    /\ de.err = Panic("assertion failed: len < 8")
    /\ from_slice(opts, ty, input).d.err = NoErr
    /\ from_slice(opts, ty, input).v = value

\* C12: from_reader and from_slice differ on no input but where a read of
\* eight bytes makes from_reader panic.
C12_ReaderAsSliceBelowEightBytes ==
    (pc = "decoded" /\ mode.m = "reader" /\ mode.short = 0)
        => \/ SameOutcome(Ret(de, dval), from_slice(opts, ty, input))
           \/ de.err = Panic("assertion failed: len < 8")
\* The stream ended before the bytes of a request were delivered: more
\* bytes were counted as read than the stream has delivered.
Starved ==
    /\ pc = "decoded" /\ mode.m = "reader"
    /\ mode.len - de.remaining_bytes > de.pos

\* C13: when the stream ends before the bytes of a request were delivered,
\* from_reader fails with TooShort and returns no value.
C13_ShortStreamTooShort ==
    Starved => (de.err = <<"TooShort">> /\ dval = NoValue)

\* C13: from_reader returned a value built from fewer bytes than were
\* requested from a stream that ended before its declared length.
C13_ValueFromFewerBytes ==
    /\ Starved /\ mode.short > 0
    /\ de.err = NoErr /\ dval # NoValue /\ dval # value
    /\ de.pos = Len(de.input) /\ de.remaining_bytes = 0

\* C13: a short stream makes from_reader fail with the io error of
\* read_exact, return a value or fail on the bytes it got, and never fail
\* with TooShort.
C13_ShortStreamOutcomes ==
    Starved => \/ de.err = <<"IoError", "UnexpectedEof">>
               \/ de.err = NoErr /\ dval # NoValue
               \/ de.err \notin {NoErr, <<"TooShort">>} /\ dval = NoValue
\* A sequence of elements that take bytes, written with n elements and read
\* element by element under the limits mode.lo and mode.hi.
ElementLoop ==
    /\ pc = "decoded" /\ mode.m = "limits"
    /\ dety.kind = "Sequence" /\ ~dety.as_bytes
    /\ dety.element_type # EmptyString

\* C14: the element loop of a sequence.  A section of n elements read under
\* min_elements lo and max_elements hi fails with NotEnoughData(lo, n) when
\* n < lo; when n > hi it fails with TooMuchData under Fail, gives all n
\* elements under Keep and the first hi elements under Discard; otherwise it
\* gives the n elements.  Whenever a value is returned the section was
\* closed with no byte left and the input is read to its end.
C14_ElementLoop ==
    ElementLoop =>
        LET n == Len(value.elems)
            policy == opts.DESERIALIZER_ACTION_ON_TOO_MUCH_DATA
        IN  /\ n < mode.lo => de.err = <<"NotEnoughData", mode.lo, n>>
            /\ (n > mode.hi /\ policy = "Fail")
                    => (de.err # NoErr /\ de.err[1] = "TooMuchData" /\ de.err[2] = mode.hi)
            /\ (n > mode.hi /\ policy = "Keep") => (de.err = NoErr /\ dval = value)
            /\ (n > mode.hi /\ policy = "Discard")
                    => /\ de.err = NoErr
                       /\ dval = [k |-> "seq", elems |-> SubSeq(value.elems, 1, mode.hi)]
            /\ (mode.lo <= n /\ n <= mode.hi) => (de.err = NoErr /\ dval = value)
            /\ de.err = NoErr
                    => /\ de.closed # <<>>
                       /\ \A j \in 1..Len(de.closed) : de.closed[j] = 0
                       /\ de.length_delimited_sections = <<>>
                       /\ de.pos = Len(input)

\* C14: under Discard a section of more than max_elements elements gave the
\* first max_elements of them; the element behind them was dropped and the
\* bytes of the others were discarded.
C14_ExtraElementsDiscarded ==
    /\ ElementLoop /\ opts.DESERIALIZER_ACTION_ON_TOO_MUCH_DATA = "Discard"
    /\ Len(value.elems) > mode.hi + 1
    /\ de.err = NoErr /\ Len(dval.elems) = mode.hi
    /\ \E j \in 1..Len(de.log) : de.log[j].what = "discard" /\ de.log[j].len > 0
    /\ de.closed[Len(de.closed)] = 0 /\ de.pos = Len(input)
\* A sequence of u8 was read from a slice of fewer than LongLen bytes
\* through deserialize_byte_buf.
FastPath ==
    /\ pc = "decoded" /\ ~de.stream
    /\ dety.kind = "Sequence" /\ dety.as_bytes
    /\ Len(input) < LongLen

\* What the element loop makes of the same input under the same schema.
ElementPath == from_slice(opts, [dety EXCEPT !.as_bytes = FALSE], input)

\* C15: deserialize_byte_buf accepts and rejects the inputs that the
\* element loop accepts and rejects for a sequence of u8 of the same limits,
\* fails with an error of the same kind and yields the same bytes.
C15_FastPathAsElementPath ==
    FastPath =>
        /\ (de.err = NoErr) = (ElementPath.d.err = NoErr)
        /\ de.err # NoErr => de.err[1] = ElementPath.d.err[1]
        /\ de.err = NoErr
                => dval.bytes = [i \in 1..Len(ElementPath.v.elems) |-> ElementPath.v.elems[i].v]

\* C15: deserialize_byte_buf returned the bytes of a section that holds
\* fewer than min_elements bytes, which the element loop refuses with
\* NotEnoughData.
C15_FewerThanMinAccepted ==
    /\ FastPath /\ mode.m = "limits" /\ Len(value.bytes) < mode.lo
    /\ de.err = NoErr /\ dval = value
    /\ ElementPath.d.err = <<"NotEnoughData", mode.lo, Len(value.bytes)>>

\* C15: the two paths differ on no input but a section of fewer than
\* min_elements bytes.
C15_FastPathLacksMinimum ==
    FastPath =>
        \/ /\ (de.err = NoErr) = (ElementPath.d.err = NoErr)
           /\ de.err # NoErr => de.err[1] = ElementPath.d.err[1]
           /\ de.err = NoErr
                => dval.bytes = [i \in 1..Len(ElementPath.v.elems) |-> ElementPath.v.elems[i].v]
        \/ /\ de.err = NoErr /\ Len(dval.bytes) < dety.min_elements
           /\ ElementPath.d.err = <<"NotEnoughData", dety.min_elements, Len(dval.bytes)>>
\* A string with a length field was read under the limits mode.lo and
\* mode.hi of its size.
StringSection == pc = "decoded" /\ mode.m = "limits" /\ dety.kind = "String"

\* The bytes of the length field of the string.
SectionField == wanted_length_field(opts, dety, FALSE).v

\* The length L of the section of the string.
SectionLength == Len(input) - SectionField

\* The call returned what the first n bytes of the section decode to: the
\* same string, or an error of the same kind.
DecodedFromFirst(n) ==
    LET first == read_string(opts,
                    DeNew(SubSeq(input, SectionField + 1, SectionField + n), dety), n)
    IN  /\ (de.err = NoErr) = (first.d.err = NoErr)
        /\ de.err # NoErr => de.err[1] = first.d.err[1]
        /\ de.err = NoErr => dval = [k |-> "str", chars |-> first.v]

\* C16: a string whose section has L bytes, read under min_size lo and
\* max_size hi, fails with NotEnoughData(lo, L) when L < lo; when L > hi it
\* fails with TooMuchData(hi, L) under Fail, is decoded from the first hi
\* bytes under Discard and from all L bytes under Keep; otherwise it is
\* decoded from the L bytes.  Whenever a value is returned, L bytes were
\* consumed behind the length field and the section was closed with no
\* byte left.
C16_StringLimits ==
    StringSection =>
        LET L == SectionLength
            policy == opts.DESERIALIZER_ACTION_ON_TOO_MUCH_DATA
        IN  /\ L < mode.lo => de.err = <<"NotEnoughData", mode.lo, L>>
            /\ (L > mode.hi /\ policy = "Fail") => de.err = <<"TooMuchData", mode.hi, L>>
            /\ (L > mode.hi /\ policy = "Discard") => DecodedFromFirst(mode.hi)
            /\ (L > mode.hi /\ policy = "Keep") => DecodedFromFirst(L)
            /\ (mode.lo <= L /\ L <= mode.hi) => DecodedFromFirst(L)
            /\ de.err = NoErr
                    => /\ de.pos = SectionField + L
                       /\ de.closed = <<0>>
                       /\ de.length_delimited_sections = <<>>

\* C16: under Discard a string of more than max_size bytes was decoded from
\* its first max_size bytes and the other bytes were dropped.
C16_StringCutToMaxSize ==
    /\ StringSection /\ opts.DESERIALIZER_ACTION_ON_TOO_MUCH_DATA = "Discard"
    /\ SectionLength > mode.hi /\ mode.hi > 0
    /\ de.err = NoErr /\ dval # value /\ Len(dval.chars) > 0
    /\ \E j \in 1..Len(de.log) :
            de.log[j].what = "discard" /\ de.log[j].len = SectionLength - mode.hi
    /\ de.pos = Len(input) /\ de.closed = <<0>>
\* to_vec returned the bytes of a struct.
StructWritten ==
    pc \in {"encoded", "reordered"} /\ ser.err = NoErr /\ ty.kind = "Struct"

\* The bytes written are the payload behind a length field of 0, 1, 2 or 4
\* bytes.
IsPayload(payload) ==
    Bind([p \in {payload} |->
        /\ Len(ser.writer) - Len(p) \in {0} \cup LengthFieldSizes
        /\ SubSeq(ser.writer, Len(ser.writer) - Len(p) + 1, Len(ser.writer)) = p])

\* The bytes of the fields, one after the other in the order of the field
\* list of the schema.
InSchemaOrder ==
    Flatten([i \in 1..Len(dety.fields) |->
        serialize_field(opts, SerNew, dety, dety.fields[i].name,
                        value_of(value.fields, dety.fields[i].name)).writer])

\* The bytes of the fields, one after the other in the order in which the
\* data type supplies them.
InSuppliedOrder == Flatten(Pieces(opts, dety, value))

\* C17, as it is stated: the fields of a struct and the tag and value pairs
\* of a TLV struct are written in the order of the field list of the schema,
\* in whatever order the data type supplies them.
C17_SchemaOrder ==
    StructWritten => IsPayload(InSchemaOrder)

\* C17, as it holds: the fields of a struct and the tag and value pairs of a
\* TLV struct are written in the order in which the data type supplies them
\* by name, which is the order of the schema when the schema lists the fields
\* as the data type does; and a struct is decoded by assigning the bytes to
\* the fields in the order of the field list of the data type, so that the
\* order of the field list of the schema changes nothing in the outcome.
C17_SuppliedOrder ==
    /\ StructWritten
        => /\ IsPayload(InSuppliedOrder)
           /\ dety = ty => IsPayload(InSchemaOrder)
    /\ (pc = "decoded" /\ mode.m = "reordered")
        => SameOutcome(Ret(de, dval), from_slice(opts, ty, input))

\* C17: a struct that is no TLV struct was written with its fields in the
\* order of the data type, which is not the order of its schema, and was
\* read back under that schema.
C17_WrittenInSuppliedOrder ==
    /\ pc = "decoded" /\ mode.m = "reordered" /\ ~IsTlv(ty)
    /\ InSuppliedOrder # InSchemaOrder
    /\ IsPayload(InSuppliedOrder)
    /\ de.err = NoErr /\ dval = value
\* What from_slice makes of the pairs of the TLV struct in the order in
\* which they were written.
Unpermuted == from_slice(opts, ty, TlvFrame(opts, ty, Flatten(Pieces(opts, ty, value))))

\* C18: a TLV struct whose pairs decode to a value in the order in which
\* they were written decodes to the same value with its pairs in any other
\* order.
C18_AnyOrderOfPairs ==
    (pc = "decoded" /\ mode.m = "permuted")
        => Bind([u \in {Unpermuted} |->
                u.d.err = NoErr => (de.err = NoErr /\ dval = u.v)])

\* C18: the pairs of a TLV struct of three fields were read in an order in
\* which none is at its place, and gave the value that was written.
C18_PermutedPairsDecoded ==
    /\ pc = "decoded" /\ mode.m = "permuted"
    /\ Len(ty.fields) = 3 /\ \A i \in 1..3 : mode.p[i] # i
    /\ input # ser.writer
    /\ de.err = NoErr /\ dval = value
\* to_vec returned the bytes of a TLV struct.
TlvWritten == pc = "encoded" /\ ser.err = NoErr /\ IsTlv(ty)

\* The pairs that were written with a tag.
Tagged == {i \in 1..Len(value.fields) : Len(Piece(i)) >= 2}

\* The two bytes hold the tag of the wire type code w and the id, the high
\* byte first.
BigEndianTag(bytes, w, id) ==
    bytes = <<(wire_type_to_u16(w) + id) \div 256, (wire_type_to_u16(w) + id) % 256>>

\* C19, as it is stated: the tag of a pair is the 16 bit value
\* (wire type code << 12) | id of a wire type code 0..7, so that bit 15 is 0,
\* written with the high byte first under every byte order, and dissecting
\* the tag of a wire type code and an id gives back the two.
C19_TagBigEndian ==
    /\ \A w \in 0..7, id \in {0, 1, UnknownId, 4095} :
            disect_tag(wire_type_to_u16(w) + id) = <<w, id>>
    /\ TlvWritten
        => \A i \in Tagged :
                \E w \in 0..7 : BigEndianTag(SubSeq(Piece(i), 1, 2), w, PieceField(i).id)

\* C19: under LittleEndian the tag of the first pair of a TLV struct was
\* written with its low byte first.
C19_TagLowByteFirst ==
    /\ TlvWritten /\ opts.BYTE_ORDER = "LittleEndian"
    /\ 1 \in Tagged /\ PieceField(1).id > 0
    /\ LET at == Len(ser.writer) - Len(Flatten(Pieces(opts, ty, value))) IN
        /\ at \in LengthFieldSizes
        /\ SubSeq(ser.writer, at + 1, at + 2) = SubSeq(Piece(1), 1, 2)
    /\ \E w \in 0..7 :
        /\ BigEndianTag(<<Piece(1)[2], Piece(1)[1]>>, w, PieceField(1).id)
        /\ ~BigEndianTag(SubSeq(Piece(1), 1, 2), w, PieceField(1).id)

\* C19: the tag of a pair is the 16 bit value (wire type code << 12) | id
\* written in the configured byte order, and the tag read in that byte
\* order names the id of the field.
C19_TagInConfiguredByteOrder ==
    TlvWritten
        => \A i \in Tagged :
            /\ \E w \in 0..7 :
                    SubSeq(Piece(i), 1, 2)
                        = write_ux(wire_type_to_u16(w) + PieceField(i).id, 2, opts.BYTE_ORDER)
            /\ WrittenTag(i)[2] = PieceField(i).id
\* to_vec of test_struct_tlv: the default options, the struct and its value.
TestWritten ==
    pc = "encoded" /\ opts = ExampleOptions /\ ty = Test /\ value = teste

\* C20, as it is stated: to_vec of the value {-1, 42, [1, 2, 3]} of the TLV
\* struct under the default options gives the bytes
\* 00 10 10 01 FF FF 20 02 00 00 00 2A 40 03 03 01 02 03.
C20_TagOfThirdKept ==
    TestWritten
        => /\ ser.err = NoErr
           /\ ser.writer = <<0, 16, 16, 1, 255, 255, 32, 2, 0, 0, 0, 42, 64, 3, 3, 1, 2, 3>>

\* C20, as it holds: to_vec of the value {-1, 42, [1, 2, 3]} of the TLV
\* struct under the default options gives the bytes
\* 00 10 10 01 FF FF 20 02 00 00 00 2A 50 03 03 01 02 03; the tag of the
\* third field names the length field of one byte that was written.
C20_TestStructTlv ==
    TestWritten
        => /\ ser.err = NoErr
           /\ ser.writer = <<0, 16, 16, 1, 255, 255, 32, 2, 0, 0, 0, 42, 80, 3, 3, 1, 2, 3>>

\* C20: the value of the test was written in 18 bytes, the tag of the third
\* field with the wire type 5.
C20_ThirdTaggedWithOneByte ==
    /\ TestWritten /\ ser.err = NoErr /\ Len(ser.writer) = 18
    /\ disect_tag(from_be(SubSeq(ser.writer, 13, 14))) = <<5, 3>>
    /\ ~opts.SERIALIZER_USE_LEGACY_WIRE_TYPE
\* The schema is a struct marked as message wrapper.
IsMessageWrapper == ty.kind = "Struct" /\ ty.is_message_wrapper

\* C21: a message wrapper has no length field.  to_vec gives the bytes of
\* its fields one after the other, with their tags when it is a TLV struct,
\* and nothing before them, whatever length field size the schema and the
\* options provide; from_slice reads the fields from the first byte on and
\* opens no section for the struct, and a TLV message wrapper is read to the
\* end of the input.
C21_MessageWrapper ==
    IsMessageWrapper =>
        /\ (pc \in {"encoded", "reordered"} /\ ser.err = NoErr)
                => ser.writer = Flatten(Pieces(opts, dety, value))
        /\ DecodedSame
                => /\ de.err = NoErr /\ dval = value /\ de.pos = Len(input)
                   /\ de.log[1].what = "read"
                   /\ de.log[1].len = IF IsTlv(ty) THEN 2 ELSE get_len(ty.fields[1].field_type.prim)
        /\ (pc = "decoded" /\ ~de.stream /\ IsTlv(ty) /\ de.err = NoErr)
                => de.pos = Len(input)

\* C21: a message wrapper whose schema names a length field size was
\* written as the bytes of its fields and read back.
C21_WrapperWithoutLengthField ==
    /\ IsMessageWrapper /\ ty.length_field_size # 0 /\ DecodedSame
    /\ overwrite_length_field_size(opts, ty.length_field_size) # 0
    /\ input = Flatten(Pieces(opts, ty, value))
    /\ de.err = NoErr /\ dval = value
\* to_vec returned the bytes of a string.
StringWritten == pc = "encoded" /\ ser.err = NoErr /\ ty.kind = "String"

\* The bytes of the byte order mark, of the content and of the terminator of
\* the string under the options.
BomBytes ==
    IF ~opts.STRING_WITH_BOM THEN <<>>
    ELSE IF opts.STRING_ENCODING # "Utf16" THEN <<239, 187, 191>>
    ELSE IF opts.BYTE_ORDER = "BigEndian" THEN <<254, 255>> ELSE <<255, 254>>

ContentBytes ==
    IF opts.STRING_ENCODING # "Utf16" THEN as_bytes(value.chars)
    ELSE Flatten([i \in 1..Len(encode_utf16(value.chars)) |->
                    write_ux(encode_utf16(value.chars)[i], 2, opts.BYTE_ORDER)])

TerminatorBytes ==
    IF ~opts.STRING_WITH_TERMINATOR THEN <<>>
    ELSE IF opts.STRING_ENCODING # "Utf16" THEN <<0>> ELSE <<0, 0>>

\* C22: the bytes of a string are its length field, when one is wanted, the
\* byte order mark, when the options ask for it, the content and the
\* terminator, when the options ask for it.  The mark is EF BB BF for UTF-8
\* and FEFF in the configured byte order for UTF-16, the terminator one zero
\* byte for UTF-8 and ASCII and two for UTF-16, and the length field holds
\* the number of the bytes of mark, content and terminator.
C22_StringLayout ==
    StringWritten =>
        Bind([body \in {BomBytes \o ContentBytes \o TerminatorBytes} |->
            IF wanted_length_field(opts, ty, FALSE).v = 0 THEN ser.writer = body
            ELSE \E w \in LengthFieldSizes :
                    ser.writer = write_ux(Len(body), w, opts.BYTE_ORDER) \o body])

\* C22: a string was written in UTF-16 under LittleEndian with the mark
\* FF FE behind its length field that counts the mark.
C22_MarkInLittleEndian ==
    /\ StringWritten /\ opts.STRING_ENCODING = "Utf16" /\ opts.STRING_WITH_BOM
    /\ opts.BYTE_ORDER = "LittleEndian" /\ Len(value.chars) > 0
    /\ \E w \in LengthFieldSizes :
        /\ SubSeq(ser.writer, 1, w) = write_ux(Len(ser.writer) - w, w, "LittleEndian")
        /\ SubSeq(ser.writer, w + 1, w + 2) = <<255, 254>>

\* C22: a string was written in UTF-8 with mark and terminator.
C22_MarkAndTerminator ==
    /\ StringWritten /\ opts.STRING_ENCODING = "Utf8" /\ opts.STRING_WITH_BOM
    /\ opts.STRING_WITH_TERMINATOR /\ Len(value.chars) > 0
    /\ ser.writer[Len(ser.writer)] = 0

\* The string or sequence was handed to to_vec under the limits of dety; a
\* string is one of fewer than LongLen characters that has an encoded size,
\* which under ASCII is a string of ASCII characters.
LimitedWritten ==
    /\ pc = "limited"
    /\ ty.kind = "String" => Len(value.chars) < LongLen
    /\ (ty.kind = "String" /\ opts.STRING_ENCODING = "Ascii")
            => \A i \in 1..Len(value.chars) : value.chars[i] < 128

\* The size the limits of dety are compared with: the bytes of mark, content
\* and terminator of a string, the number of elements of a sequence.
MeasuredSize ==
    IF ty.kind = "String" THEN Len(BomBytes \o ContentBytes \o TerminatorBytes)
    ELSE IF value.k = "bytes" THEN Len(value.bytes)
    ELSE Len(value.elems)

LowerLimit == IF ty.kind = "String" THEN dety.min_size ELSE dety.min_elements

UpperLimit == IF ty.kind = "String" THEN dety.max_size ELSE dety.max_elements

C23_SequenceBelowMinElements ==
    /\ LimitedWritten /\ ty.kind = "Sequence" /\ MeasuredSize < LowerLimit
    /\ ser.err = <<"NotEnoughData", LowerLimit, MeasuredSize>>

\* A UTF-16 string with byte order mark was read from the bytes of
\* FromSliceUtf16, whose number lies within the limits of the schema.
Utf16Read(how) ==
    /\ pc = "decoded" /\ mode.m = "utf16" /\ mode.how = how
    /\ SectionLength >= ty.min_size /\ SectionLength <= ty.max_size

\* C24: a UTF-16 string with byte order mark is read in the byte order its
\* mark names, whatever the configured byte order, and the mark is no part of
\* the value; without a mark in the first code unit, with an odd number of
\* bytes or, under STRING_WITH_TERMINATOR, without a zero code unit at the
\* end the read fails with CannotCodeString.
C24_Utf16Mark ==
    /\ Utf16Read("swapped") => (de.err = NoErr /\ dval = value /\ de.pos = Len(input))
    /\ Utf16Read("unmarked") => de.err = <<"CannotCodeString">>
    /\ Utf16Read("emptied") => de.err = <<"CannotCodeString">>
    /\ Utf16Read("odd") => de.err = <<"CannotCodeString">>
    /\ Utf16Read("unterminated") => de.err = <<"CannotCodeString">>

\* C24: under BigEndian a string was read from bytes with the mark FF FE and
\* code units in little endian.
C24_ReadInOtherByteOrder ==
    /\ Utf16Read("swapped") /\ opts.BYTE_ORDER = "BigEndian"
    /\ Len(value.chars) > 0
    /\ \E i \in 1..(Len(input) - 1) : SubSeq(input, i, i + 1) = <<255, 254>>
    /\ de.err = NoErr /\ dval = value

\* C24: a string without its zero code unit at the end was refused.
C24_UnterminatedRefused ==
    /\ Utf16Read("unterminated") /\ Len(value.chars) > 0
    /\ de.err = <<"CannotCodeString">>

\* The options with the other byte order, and the bytes in reverse.
OtherByteOrder ==
    [opts EXCEPT !.BYTE_ORDER = IF @ = "BigEndian" THEN "LittleEndian" ELSE "BigEndian"]

Reversed(bytes) == [i \in 1..Len(bytes) |-> bytes[Len(bytes) + 1 - i]]

\* C25: the bytes of a primitive of two, four or eight bytes under one byte
\* order are the bytes under the other byte order in reverse, and from_slice
\* of the reversed bytes under the other byte order gives the value back.
C25_ByteOrderSymmetry ==
    /\ pc \in {"encoded", "decoded"}
            => /\ ser.err = NoErr
               /\ Len(ser.writer) = get_len(ty.prim)
               /\ to_vec(OtherByteOrder, ty, value).writer = Reversed(ser.writer)
    /\ pc = "decoded"
            => /\ input = Reversed(ser.writer)
               /\ de.err = NoErr /\ dval = value /\ de.pos = Len(input)

\* C25: a value of four bytes that are all different was written lowest byte
\* first and read back from the bytes highest first.
C25_ReadBackReversed ==
    /\ pc = "decoded" /\ mode.m = "reversed"
    /\ opts.BYTE_ORDER = "LittleEndian" /\ ty.prim = "u32"
    /\ ser.writer = <<120, 86, 52, 18>> /\ input = <<18, 52, 86, 120>>
    /\ dval = value

\* The top level value is a string or a sequence.
LengthDelimited == ty.kind \in {"String", "Sequence"}

\* min == max, and for a sequence elements of constant size: primitives or
\* strings with min == max.
ConstantSize(t) ==
    IF t.kind = "String" THEN t.min_size = t.max_size
    ELSE /\ t.kind = "Sequence"
         /\ t.min_elements = t.max_elements
         /\ \/ t.element_type.kind = "Primitive"
            \/ /\ t.element_type.kind = "String"
               /\ t.element_type.min_size = t.element_type.max_size

\* The number of bytes of a string or sequence of constant size.
FixedSize ==
    IF ty.kind = "String" THEN ty.max_size
    ELSE ty.max_elements * max_len(opts, ty.element_type, FALSE).v

\* The fields of the TLV struct that are strings or sequences of constant
\* size and were written.
ConstSizeFields ==
    {i \in Tagged : LET t == ty.fields[field_by_name(ty, value.fields[i][1])].field_type
                     IN  ConstantSize(t)}

\* C26: a string or sequence outside of a TLV struct is written with a length
\* field in front of its payload when its size is not constant and as its
\* payload alone, of the fixed size, when it is, whether the schema names a
\* length field size or not, and is read back the same way; as the value of a
\* field of a TLV struct the string or sequence of constant size has a length
\* field behind the tag.
C26_LengthFieldIffNeeded ==
    /\ (pc = "encoded" /\ ser.err = NoErr /\ LengthDelimited)
            => IF ConstantSize(ty)
               THEN ser.writer = Payload.writer /\ Len(ser.writer) = FixedSize
               ELSE \E w \in LengthFieldSizes :
                        ser.writer = write_ux(Len(Payload.writer), w, opts.BYTE_ORDER)
                                        \o Payload.writer
    /\ (DecodedSame /\ LengthDelimited /\ ConstantSize(ty))
            => (de.err = NoErr /\ dval = value /\ de.pos = FixedSize)
    /\ (pc = "decoded" /\ mode.m = "trailing" /\ LengthDelimited /\ ConstantSize(ty))
            => (de.err = NoErr /\ dval = value /\ de.pos = FixedSize)
    /\ TlvWritten
            => \A i \in ConstSizeFields :
                \E w \in LengthFieldSizes :
                    /\ Len(Piece(i)) >= 2 + w
                    /\ SubSeq(Piece(i), 3, 2 + w)
                            = write_ux(Len(Piece(i)) - 2 - w, w, opts.BYTE_ORDER)
    /\ (DecodedSame /\ IsTlv(ty) /\ ser.err = NoErr /\ ConstSizeFields # {})
            => (de.err = NoErr /\ dval = value)

\* C26: a string of constant size whose schema names a length field size was
\* written without one and read back from its two bytes.
C26_NamedWidthNotWritten ==
    /\ DecodedSame /\ ty.kind = "String" /\ ConstantSize(ty)
    /\ ty.length_field_size # 0 /\ overwrite_length_field_size(opts, ty.length_field_size) # 0
    /\ input = as_bytes(value.chars) /\ Len(input) = 2
    /\ de.err = NoErr /\ dval = value /\ de.pos = 2

\* C26: a string of constant size was written behind the tag of a TLV struct
\* with a length field.
C26_ConstSizeTlvField ==
    /\ TlvWritten /\ ConstSizeFields # {}
    /\ \E i \in ConstSizeFields : Len(Piece(i)) = 5 /\ Piece(i)[3] = 2

\* The primitive type and value the variant of the top level enum stands for.
RawType == Primitive(ty.raw_type)

RawOf(variant) ==
    [k |-> ty.raw_type,
     v |-> ty.values[CHOOSE i \in 1..Len(ty.values) : ty.values[i][1] = variant][2]]

\* The value that the bytes of the input are as a primitive of the raw type.
RawRead == from_slice(opts, RawType, input).v.v

\* C27: the bytes of an enum are the bytes of the value of its variant as a
\* primitive of the raw type; from_slice reads one primitive of the raw type
\* and gives the variant of that value, or InvalidEnumValue with the value
\* and the name of the enum when no variant has it.
C27_EnumAsRawValue ==
    ty.kind = "Enum" =>
        /\ pc \in {"encoded", "decoded"}
                => /\ ser.err = NoErr
                   /\ ser.writer = to_vec(opts, RawType, RawOf(value.variant)).writer
        /\ DecodedSame => (de.err = NoErr /\ dval = value /\ de.pos = Len(input))
        /\ (pc = "decoded" /\ mode.m = "raw")
                => /\ de.pos = get_len(ty.raw_type)
                   /\ Len(de.log) = 1
                   /\ de.log[1].what = "read" /\ de.log[1].len = get_len(ty.raw_type)
                   /\ IF \E i \in 1..Len(ty.values) : ty.values[i][2] = RawRead
                      THEN /\ de.err = NoErr
                           /\ dval.k = "enum"
                           /\ RawOf(dval.variant).v = RawRead
                      ELSE de.err = <<"InvalidEnumValue", RawRead, ty.name>>

\* C27: the bytes 00 02 are no variant of TestEnum.
C27_NoVariantOfValue ==
    /\ pc = "decoded" /\ mode.m = "raw" /\ ty = TestEnum
    /\ input = <<0, 2>>
    /\ de.err = <<"InvalidEnumValue", 2, "TestEnum">>

\* C27: the variant Third was read from the bytes FA C7.
C27_ThirdRead ==
    /\ pc = "decoded" /\ mode.m = "raw" /\ ty = TestEnum
    /\ input = <<250, 199>>
    /\ de.err = NoErr /\ dval = [k |-> "enum", variant |-> "Third"]

\* A bool was read from one byte of FromSliceRaw.
BoolRead == pc = "decoded" /\ mode.m = "raw" /\ ty = Primitive("bool")

\* C28: the byte 0 is read as false; without DESERIALIZER_STRICT_BOOL every
\* other byte is read as true; with it the byte 1 is read as true and a byte
\* above 1 fails with InvalidBool(byte).  A bool is written as the one byte
\* 0 or 1.
C28_Bool ==
    /\ BoolRead
            => /\ Len(input) = 1
               /\ input[1] = 0 => (de.err = NoErr /\ dval = [k |-> "bool", v |-> 0])
               /\ (input[1] # 0 /\ ~opts.DESERIALIZER_STRICT_BOOL)
                        => (de.err = NoErr /\ dval = [k |-> "bool", v |-> 1])
               /\ (input[1] = 1 /\ opts.DESERIALIZER_STRICT_BOOL)
                        => (de.err = NoErr /\ dval = [k |-> "bool", v |-> 1])
               /\ (input[1] > 1 /\ opts.DESERIALIZER_STRICT_BOOL)
                        => de.err = <<"InvalidBool", input[1]>>
    /\ (pc \in {"encoded", "decoded"} /\ ty = Primitive("bool"))
            => (ser.err = NoErr /\ ser.writer = <<IF value.v = 1 THEN 1 ELSE 0>>)

\* C28: under DESERIALIZER_STRICT_BOOL the byte 2 was refused.
C28_StrictRefusesTwo ==
    /\ BoolRead /\ opts.DESERIALIZER_STRICT_BOOL /\ input = <<2>>
    /\ de.err = <<"InvalidBool", 2>>

\* C28: without DESERIALIZER_STRICT_BOOL the byte 255 was read as true.
C28_LenientReadsTrue ==
    /\ BoolRead /\ ~opts.DESERIALIZER_STRICT_BOOL /\ input = <<255>>
    /\ de.err = NoErr /\ dval = [k |-> "bool", v |-> 1]

\* C29: no length section of the serializer is closed with a width selected
\* for its payload that is larger than the width reserved for it: the
\* assertion reserved > actual of end_length_delimited_section holds.
C29_ReservedCoversSelected ==
    ser.err # Panic("assertion failed: reserved > actual")

\* C29: to_vec under the example options of the TLV struct in a TLV struct
\* has reserved one byte for the length of the inner struct, whose payload
\* of 256 bytes needs two, and has panicked.
C29_SelectedAboveReserved ==
    /\ pc = "encoded" /\ ty = Nested /\ opts = ExampleOptions
    /\ max_len(opts, ty.fields[1].field_type, TRUE) = [err |-> NoErr, v |-> 255]
    /\ Len(value.fields[1][2].fields[1][2].bytes) = 253
    /\ ser.err = Panic("assertion failed: reserved > actual")
    /\ Len(ser.length_delimited_sections) = 0
    /\ Len(ser.writer) = 2 + 1 + 256

\* The number of payload bytes of a closed section and the payload.
PayloadLen(c) == Len(c.before) - c.pos - c.reserved

PayloadOf(c) == SubSeq(c.before, c.pos + c.reserved + 1, Len(c.before))

\* C30: closing a length section opened at position pos with reserved bytes
\* leaves the bytes before pos as they were, stores the number of payload
\* bytes in the selected width, in the configured byte order, at pos, puts
\* the payload unchanged directly behind it and shortens the buffer by the
\* difference of the reserved and the selected width.
C30_CloseFrame ==
    \A k \in 1..Len(ser.closes) :
        LET c == ser.closes[k] IN
        /\ c.ok
        /\ c.actual \in LengthFieldSizes
        /\ SubSeq(c.after, 1, c.pos) = SubSeq(c.before, 1, c.pos)
        /\ SubSeq(c.after, c.pos + 1, c.pos + c.actual)
                = write_ux(PayloadLen(c), c.actual, opts.BYTE_ORDER)
        /\ SubSeq(c.after, c.pos + c.actual + 1, Len(c.after)) = PayloadOf(c)
        /\ Len(c.after) = Len(c.before) - (c.reserved - c.actual)

\* C30: a section with payload that was opened behind other bytes with more
\* bytes reserved than selected was closed.
C30_ClosedNarrower ==
    \E k \in 1..Len(ser.closes) :
        LET c == ser.closes[k] IN
        /\ c.pos > 0 /\ c.reserved > c.actual /\ PayloadLen(c) > 1
        /\ Len(c.after) = Len(c.before) - (c.reserved - c.actual)
        /\ SubSeq(c.after, c.pos + c.actual + 1, Len(c.after)) = PayloadOf(c)

\* A sequence with a length field was written with as many elements as its
\* schema allows, the length was raised and as many bytes were put behind
\* the elements, and the bytes were read under the policy Fail.
SurplusInSection ==
    /\ pc = "decoded" /\ mode.m = "grown"
    /\ ty.kind = "Sequence" /\ ~ty.as_bytes
    /\ opts.DESERIALIZER_ACTION_ON_TOO_MUCH_DATA = "Fail"
    /\ Len(value.elems) = ty.max_elements

\* The reads of the log that followed the opening of the first section.
ReadsInSection ==
    {i \in 1..Len(de.log) :
        /\ de.log[i].what = "read"
        /\ \E j \in 1..(i - 1) : de.log[j].what = "section"}

\* C31: under the policy Fail a sequence section that still holds bytes
\* after max_elements elements were decoded ends in TooMuchData and no
\* element beyond max_elements is read, whatever the surplus bytes are.
C31_FailRejectsBeforeSurplus ==
    SurplusInSection =>
        /\ de.err = <<"TooMuchData", ty.max_elements, 0>>
        /\ Cardinality(ReadsInSection) <= ty.max_elements

\* C31: the section held one byte behind the two i16 elements it may hold,
\* the read of a third element was refused by the section and from_slice
\* returned TooShort.
C31_SurplusDecodedFirst ==
    /\ SurplusInSection /\ mode.k = 1
    /\ ty.element_type = Primitive("i16")
    /\ de.err = <<"TooShort">>
    /\ Cardinality(ReadsInSection) = ty.max_elements + 1
    /\ ~de.log[Len(de.log)].ok /\ de.log[Len(de.log)].remaining = 1

\* The discard loop asks for bytes at the end of the stream.
NoProgress == pc = "loop" /\ mode.left # 0 /\ StreamLeft(de) = 0

\* C32: a call of discard over a stream always returns, and when the source
\* returns 0 bytes without an error the call returns an IoError.
C32_DiscardReturns ==
    /\ <>(pc = "returned")
    /\ NoProgress ~> (pc = "returned" /\ de.err # NoErr /\ de.err[1] = "IoError")

\* C32: discard was called for more bytes than the stream delivers and the
\* declared length allows them: the loop has taken what there was, its len
\* is not 0 and the next read returns Ok(0).
C32_ZeroProgress ==
    /\ NoProgress
    /\ mode.len > Len(input) /\ de.err = NoErr
    /\ de.pos = Len(input) /\ mode.left = mode.len - Len(input)

\* C32: from_reader met a pair of an unknown id whose bytes the stream does
\* not deliver to their end: the call of discard does not return.
C32_DecodeNeverReturns ==
    /\ pc = "decoded" /\ mode.m = "reader_unknown"
    /\ de.err = <<"NeverReturns">>
    /\ de.log[Len(de.log)].what = "discard" /\ de.log[Len(de.log)].ok
    /\ de.pos = Len(de.input)

\* The slot holds what the close of the section that was opened directly
\* behind the tag, and closed last, has put there.
SlotOfOwnSection(p) ==
    /\ p.slot # <<>>
    /\ p.closes > 0
    /\ ser.closes[p.closes].pos = p.tag_pos + 2
    /\ Len(ser.closes[p.closes].after) = p.end
    /\ p.slot[1] = ser.closes[p.closes].actual

\* C33: whenever serialize_field comes to write the tag of a field of wire
\* type 4 again, the slot last_length_field is filled by the close of the
\* outermost section of the value of that field, the position of the tag
\* lies inside the buffer, and the slot is empty once the field is done.
C33_SlotAtBackPatch ==
    /\ \A k \in 1..Len(ser.patches) :
            SlotOfOwnSection(ser.patches[k]) /\ ser.patches[k].tag_pos < ser.patches[k].end
    /\ (Len(ser.patches) > 0 /\ ser.err = NoErr /\ IsTlv(dety) /\ dety.is_message_wrapper)
            => ser.last_length_field = <<>>

\* C33: the value of an optional string field was None and an earlier field
\* of the struct around had closed a section: serialize_none took the tag
\* back, the slot still held the width of that earlier section, the position
\* of the tag was the end of the buffer and write_at_previous_pos panicked.
C33_StaleSlotAtBackPatch ==
    /\ pc = "encoded"
    /\ ser.err = Panic("assertion failed: pos < end")
    /\ Len(ser.patches) = 1
    /\ LET p == ser.patches[1] IN
        /\ p.slot # <<>> /\ p.closes = 1
        /\ ser.closes[1].pos < p.tag_pos
        /\ ~SlotOfOwnSection(p)
        /\ p.tag_pos = p.end
    /\ value.fields[2][2].fields[1][2].k = "none"

\* C33: the value of an optional string, sequence or struct field was None:
\* serialize_none took the tag back and closed no section, the slot was
\* empty at take().unwrap() and the position of the tag was the end of the
\* buffer.
C33_SlotEmptyAtBackPatch ==
    /\ pc = "encoded" /\ IsTlv(ty)
    /\ ser.err = Panic("called Option::unwrap() on a None value")
    /\ Len(ser.patches) > 0
    /\ LET p == ser.patches[Len(ser.patches)] IN
        /\ p.slot = <<>>
        /\ p.tag_pos = p.end
        /\ \E i \in 1..Len(value.fields) : value.fields[i][2].k = "none"

RECURSIVE SumOf(_)
\* The sum of the counters of a stack of sections.
SumOf(sections) ==
    IF Len(sections) = 0 THEN 0 ELSE sections[1] + SumOf(Tail(sections))

\* from_slice has returned.
SliceDecoded == pc = "decoded" /\ ~de.stream

\* C34: at every call of before_read the counters of the open sections are
\* not negative and their sum is at most the number of bytes the reader has
\* left, and a call that before_read admits leaves it so; when from_slice
\* returns, the sum is at most the number of bytes of the slice that are not
\* read, and TooShort comes from before_read alone, never from next_slice
\* behind it.
C34_SectionsWithinInput ==
    /\ pc = "decoded" =>
        /\ \A i \in 1..Len(de.log) :
            LET e == de.log[i] IN
            /\ \A j \in 1..Len(e.sections) : e.sections[j] >= 0 /\ e.after[j] >= 0
            /\ SumOf(e.sections) <= e.reader
            /\ e.ok => e.len <= e.reader
            /\ (e.ok /\ e.what = "section") => SumOf(e.after) + e.len <= e.reader
            /\ (e.ok /\ e.what # "section") => SumOf(e.after) <= e.reader - e.len
        /\ \A j \in 1..Len(de.length_delimited_sections) :
                de.length_delimited_sections[j] >= 0
    /\ SliceDecoded =>
        /\ SumOf(de.length_delimited_sections) <= Len(de.input) - de.pos
        /\ de.err = <<"TooShort">> => ~de.log[Len(de.log)].ok

\* C34: a read inside two open sections took the last bytes of both the
\* inner section and the slice while the outer section had none left.
C34_ReadInsideTwoSections ==
    /\ SliceDecoded /\ de.err = NoErr
    /\ \E i \in 1..Len(de.log) :
        LET e == de.log[i] IN
        /\ e.ok /\ e.what \in {"read", "read_vec"} /\ e.len > 0
        /\ Len(e.sections) = 2 /\ e.sections[1] = 0
        /\ SumOf(e.sections) = e.reader /\ e.len = e.reader

RECURSIVE WidthsSupplied(_, _)
\* The schema, the overwrite or the default names a length field size for
\* every string, sequence and struct of the schema.
WidthsSupplied(o, t) ==
    CASE t.kind \in {"Primitive", "Enum"} -> TRUE
      [] t.kind = "String" -> overwrite_length_field_size(o, t.length_field_size) # 0
      [] t.kind = "Sequence" ->
            /\ overwrite_length_field_size(o, t.length_field_size) # 0
            /\ WidthsSupplied(o, t.element_type)
      [] OTHER ->
            /\ overwrite_length_field_size(o, t.length_field_size) # 0
            /\ \A i \in 1..Len(t.fields) : WidthsSupplied(o, t.fields[i].field_type)

\* The sections a decode has opened.
Opened == {i \in 1..Len(de.log) : de.log[i].what = "section" /\ de.log[i].ok}

\* C35: from_slice under a schema with a length field size for each of its
\* parts returns a value or an Error for every input: it does not panic, no
\* counter of a section goes below 0 and no more sections are ended than
\* were begun.
C35_FromSliceNeverAborts ==
    (SliceDecoded /\ WidthsSupplied(opts, dety)) =>
        /\ de.err = NoErr \/ de.err[1] # "panic"
        /\ Len(de.closed) <= Cardinality(Opened)
        /\ \A i \in 1..Len(de.log) :
                \A j \in 1..Len(de.log[i].after) : de.log[i].after[j] >= 0

\* C35: from_slice of the one byte 0 under the sequence of strings of the
\* constant size 0, with a length field of one byte, panicked in size_hint.
C35_FromSliceAborts ==
    /\ SliceDecoded /\ WidthsSupplied(opts, dety)
    /\ dety = Sequence(0, 3, EmptyString, 1, FALSE)
    /\ input = <<0>>
    /\ de.err = Panic("attempt to divide by zero")
    /\ Len(de.length_delimited_sections) = 1

\* from_slice has read a TLV struct with pairs of an unknown id whose tag
\* names the width of its length field; without them it decodes.
UnknownWithWidth ==
    /\ pc = "decoded" /\ mode.m = "unknown" /\ mode.wire_type \in 5..7
    /\ from_slice(opts, ty, ser.writer).d.err = NoErr

\* The calls of before_read that skip a pair of three bytes behind a length
\* field of w bytes: the read of the length, the section and the discard.
SkippedWithWidth(w) ==
    \E i \in 1..(Len(de.log) - 2) :
        /\ de.log[i].what = "read" /\ de.log[i].len = w /\ de.log[i].ok
        /\ de.log[i + 1].what = "section" /\ de.log[i + 1].len = 3 /\ de.log[i + 1].ok
        /\ de.log[i + 2].what = "discard" /\ de.log[i + 2].len = 3 /\ de.log[i + 2].ok

RequireWidth == Panic("Require a length field size to deserialize unknon id")

\* C36: a pair of an unknown id with the wire type 5, 6 or 7 is skipped by
\* reading its length in the width the tag names, whether or not the struct,
\* the overwrite or the default supply a width; the panic for the missing
\* length field size comes for the wire type 4 alone.
C36_TagWidthSuffices ==
    /\ UnknownWithWidth =>
            /\ SkippedWithWidth(get_length_field_size(mode.wire_type))
            /\ de.err # RequireWidth
    /\ (pc = "decoded" /\ de.err = RequireWidth) => mode.wire_type = 4

\* C36: the tag of the unknown pair named a length field of two bytes, no
\* width is configured for the struct around it, and from_slice panicked
\* before it read the length.
C36_PanicThoughTagNamesWidth ==
    /\ UnknownWithWidth /\ mode.wire_type = 6 /\ mode.at = 0
    /\ overwrite_length_field_size(opts, ty.length_field_size) = 0
    /\ de.err = RequireWidth
    /\ de.next_length_field_size = 2
    /\ Len(de.log) = 1 /\ de.pos = 2

\* C37: next_length_field_size is one shot.  It is empty at every tag that
\* is read; the width a tag names is found, and used, by the next length
\* section that is begun, which lies directly in the section of the struct
\* of the tag, and by no other: every other section is begun with the slot
\* empty and the configured width; the slot is empty when the decode
\* returns a value.
C37_OverrideOneShot ==
    pc = "decoded" =>
        /\ \A i \in 1..Len(de.widths) :
            LET w == de.widths[i] IN
            /\ w.what = "tag" => w.slot = 0
            /\ (w.what = "tag" /\ w.set # 0) =>
                    IF i = Len(de.widths) THEN de.err # NoErr
                    ELSE /\ de.widths[i + 1].what = "begin"
                         /\ de.widths[i + 1].slot = w.set
                         /\ de.widths[i + 1].size = w.set
                         /\ de.widths[i + 1].depth = w.depth
            /\ w.what = "begin" =>
                    IF w.slot # 0
                    THEN /\ i > 1
                         /\ de.widths[i - 1].what = "tag"
                         /\ de.widths[i - 1].set = w.slot
                    ELSE w.size = w.configured
        /\ de.err = NoErr => de.next_length_field_size = 0

\* C37: the tag of a struct field named another width than the schema, the
\* section of the struct was begun with the width of the tag, and the
\* section of the string inside it with its configured width.
C37_NestedSectionAsConfigured ==
    /\ pc = "decoded" /\ mode.m = "width" /\ de.err = NoErr /\ dval = value
    /\ \E i \in 1..(Len(de.widths) - 2) :
        /\ de.widths[i].what = "tag" /\ de.widths[i].set # 0
        /\ de.widths[i + 1].what = "begin"
        /\ de.widths[i + 1].slot = de.widths[i].set
        /\ de.widths[i + 1].size # de.widths[i + 1].configured
        /\ de.widths[i + 2].what = "begin"
        /\ de.widths[i + 2].slot = 0
        /\ de.widths[i + 2].depth = de.widths[i + 1].depth + 1
====
